---- MODULE Spec2Model ----
(***************************************************************************)
(* A model of music21/mei/base.py: the MEI-to-music21 converter.           *)
(*                                                                         *)
(* Strings are modelled as sequences of tokens, so that Python's string    *)
(* concatenation is \o and the test "x in s" is membership of a token.     *)
(* An attribute that is absent (Element.get returns None) is a name that   *)
(* is not in the DOMAIN of the element's attribute function; the Python    *)
(* value None stored as a value is NoneVal.                                *)
(***************************************************************************)
EXTENDS Integers, Sequences, FiniteSets, TLC

VARIABLES
    pc,          \* Spec: position in run (index into runOrder)
    raised,      \* Spec: the exception that ended run, "none" while it runs
    spans,       \* Spec: the spanning elements of the document, document order
    docAttr,     \* Spec: attribute set of each element as parsed from the text
    elemAttr,    \* Spec: attribute set of each element of documentRoot
    m21Attr,     \* Spec: MeiToM21Converter.m21Attr
    slurBundle,  \* Spec: MeiToM21Converter.slurBundle (list of Slur)
    uuidCount,   \* Spec: number of uuid4() labels drawn so far
    done,        \* Spec: the calls of run that have returned
    nextElem,    \* Spec: index of the next element the assembler converts
    converted,   \* Spec: the objects built so far, conversion order
    ppEnd,       \* Spec: m21Attr and slurBundle as they were when assembly began
    theScore,    \* Spec: the returned Score, NoScore until run returns
    someThings,  \* SpecBeam: the list handed to beamTogether, changed in place
    thingsBefore,\* SpecBeam: someThings as it was when beamTogether was called
    beamCall,    \* SpecBeam: "ready", then "returned" or the exception raised
    theLayer,    \* SpecTuplet: the list handed to _guessTuplets, changed in place
    layerBefore, \* SpecTuplet: theLayer as it was when _guessTuplets was called
    guessCall,   \* SpecTuplet: "ready", then "returned"
    measureElem, \* SpecMeasure: the <measure> element handed to measureFromElement
    expectedNs,  \* SpecMeasure: the @n of every staff the score declares
    activeMeter, \* SpecMeasure: the active TimeSignature, NoMeter without one
    staves,      \* SpecMeasure: the dict measureFromElement builds and returns
    measureCall, \* SpecMeasure: "ready", then "returned"
    document,    \* SpecAssemble: the <score> of documentRoot, as parsed
    allPartNs,   \* SpecAssemble: run's allPartNs
    parsed,      \* SpecAssemble: run's parsed, the Part of every staff
    inNextMeasure, \* SpecAssemble: run's inNextMeasure, the queue of every staff
    meterInRun,  \* SpecAssemble: run's activeMeter
    nextMeasureLeft, \* SpecAssemble: run's nextMeasureLeft
    backupMeasureNum, \* SpecAssemble: run's backupMeasureNum
    position,    \* SpecAssemble: how many objects of the sections are processed
    assembled,   \* SpecAssemble: the Score run returns, NoScore before
    assembleCall,\* SpecAssemble: the stage run is at, or the exception raised
    call,        \* SpecCall: the function called and its arguments
    result       \* SpecCall: what the call produced: a value or an exception

runVars == <<pc, raised, spans, docAttr, elemAttr, m21Attr, slurBundle, uuidCount, done, nextElem,
             converted, ppEnd, theScore>>
beamVars == <<someThings, thingsBefore, beamCall>>
tupletVars == <<theLayer, layerBefore, guessCall>>
measureVars == <<measureElem, expectedNs, activeMeter, staves, measureCall>>

assembleVars == <<document, allPartNs, parsed, inNextMeasure, meterInRun, nextMeasureLeft,
                  backupMeasureNum, position, assembled, assembleCall>>

callVars == <<call, result>>

vars == <<runVars, beamVars, tupletVars, measureVars, assembleVars, callVars>>

(***************************************************************************)
(* Bounds                                                                  *)
(***************************************************************************)
MaxSpans == 2

(***************************************************************************)
(* Values                                                                  *)
(***************************************************************************)
NoneVal == <<"None">>
NoScore == [parts |-> <<>>, spanners |-> <<>>, returned |-> FALSE]
EmptyDict == [n \in {} |-> <<>>]
\* activeMeter=None
NoMeter == [cls |-> "NoneType"]

\* the outcome of a call: not returned yet, a value, or an exception with the
\* parts of its message
Pending == [raised |-> "pending"]

Returns(value) == [raised |-> "none", value |-> value]

Raises(exception, message) == [raised |-> exception, value |-> message]

DictGet(d, k, default) == IF k \in DOMAIN d THEN d[k] ELSE default

DictPut(d, k, v) == [n \in DOMAIN d \cup {k} |-> IF n = k THEN v ELSE d[n]]

\* m21Attr[xmlid][name] = value on a defaultdict(lambda: {})
AttrSet(attrs, xmlid, name, value) ==
    DictPut(attrs, xmlid, DictPut(DictGet(attrs, xmlid, EmptyDict), name, value))

\* m21Attr[xmlid] read on a defaultdict: creates the entry when missing
AttrTouch(attrs, xmlid) ==
    DictPut(attrs, xmlid, DictGet(attrs, xmlid, EmptyDict))

removeOctothorpe(xmlid) ==
    IF Len(xmlid) > 0 /\ xmlid[1] = "#" THEN Tail(xmlid) ELSE xmlid

\* str(uuid4()): a label no earlier call returned and no document contains
uuid4(n) == <<"uuid">> \o [i \in 1..n |-> "x"]

(***************************************************************************)
(* The document.  Elements in document order; depth 0 is the root <mei>.   *)
(***************************************************************************)
Elements ==
    << [tag |-> "mei",   xmlid |-> <<"r">>, depth |-> 0, dur |-> 0],
       [tag |-> "music", xmlid |-> <<"m">>, depth |-> 1, dur |-> 0],
       [tag |-> "note",  xmlid |-> <<"a">>, depth |-> 7, dur |-> 8],
       [tag |-> "note",  xmlid |-> <<"b">>, depth |-> 7, dur |-> 8],
       [tag |-> "note",  xmlid |-> <<"c">>, depth |-> 7, dur |-> 8],
       [tag |-> "note",  xmlid |-> NoneVal, depth |-> 7, dur |-> 4] >>

ElemIdx == 1..Len(Elements)
NoteIdx == {i \in ElemIdx : Elements[i].tag = "note"}

Span(kind, startid, endid, plist, num, numbase) ==
    [kind |-> kind, startid |-> startid, endid |-> endid, plist |-> plist,
     num |-> num, numbase |-> numbase]

SlurShapes ==
    { Span("slur", s, e, NoneVal, NoneVal, NoneVal) :
        <<s, e>> \in { << <<"#", "a">>, <<"#", "b">> >>,
                       << <<"#", "a">>, <<"c">> >>,
                       << <<"#", "m">>, <<"#", "b">> >>,
                       << NoneVal, <<"#", "b">> >>,
                       << <<"#", "a">>, NoneVal >> } }

TieShapes ==
    { Span("tie", s, e, NoneVal, NoneVal, NoneVal) :
        <<s, e>> \in { << <<"#", "a">>, <<"#", "b">> >>,
                       << <<"#", "b">>, <<"#", "c">> >>,
                       << NoneVal, <<"#", "c">> >> } }

BeamShapes ==
    { Span("beamSpan", <<"#", "a">>, <<"#", "c">>, NoneVal, NoneVal, NoneVal),
      Span("beamSpan", <<"#", "a">>, <<"#", "c">>,
           << <<"#", "a">>, <<"#", "b">>, <<"#", "c">> >>, NoneVal, NoneVal),
      Span("beamSpan", NoneVal, <<"#", "c">>, << <<"#", "b">>, <<"#", "c">> >>,
           NoneVal, NoneVal) }

TupletShapes ==
    { Span("tupletSpan", NoneVal, NoneVal, << <<"#", "a">>, <<>>, <<"b">> >>, <<"3">>, <<"2">>),
      Span("tupletSpan", <<"#", "a">>, <<"#", "c">>, NoneVal, <<"3">>, <<"2">>),
      Span("tupletSpan", <<"#", "b">>, <<"#", "b">>, NoneVal, <<"5">>, <<"4">>),
      Span("tupletSpan", <<"#", "a">>, NoneVal, NoneVal, <<"3">>, <<"2">>),
      Span("tupletSpan", <<"#", "b">>, <<"#", "c">>, NoneVal, NoneVal, <<"2">>),
      Span("tupletSpan", <<"#", "a">>, NoneVal, NoneVal, NoneVal, <<"2">>) }

Shapes == SlurShapes \cup TieShapes \cup BeamShapes \cup TupletShapes

SpanSeqs == UNION { [1..n -> Shapes] : n \in 0..MaxSpans }

\* the spanning elements of one kind, in document order (Element.iterfind)
RECURSIVE iterfind(_, _)
iterfind(ss, kind) ==
    IF ss = <<>> THEN <<>>
    ELSE (IF Head(ss).kind = kind THEN <<Head(ss)>> ELSE <<>>) \o iterfind(Tail(ss), kind)

\* the @slur attributes a document may carry: each token a <<number, type>> pair
InlineSlurs ==
    { [i \in ElemIdx |-> <<>>],
      [i \in ElemIdx |->
          CASE Elements[i].xmlid = <<"a">> -> << <<"1", "i">> >>
            [] Elements[i].xmlid = <<"b">> -> << <<"2", "t">> >>
            [] Elements[i].xmlid = <<"c">> -> << <<"1", "t">> >>
            [] OTHER -> <<>>],
      [i \in ElemIdx |->
          CASE Elements[i].xmlid = <<"a">> -> << <<"1", "i">> >>
            [] Elements[i].xmlid = <<"b">> -> << <<"1", "t">>, <<"1", "i">> >>
            [] Elements[i].xmlid = <<"c">> -> << <<"1", "t">> >>
            [] OTHER -> <<>>] }

\* the attribute sets of the parsed document: @tie and @slur written inline
InitialAttrs ==
    { [i \in ElemIdx |->
          LET withTie == IF Elements[i].xmlid = <<"b">> /\ tieB
                           THEN DictPut(EmptyDict, "tie", <<"i">>) ELSE EmptyDict
          IN  IF inl[i] # <<>> THEN DictPut(withTie, "slur", inl[i]) ELSE withTie] :
      tieB \in BOOLEAN, inl \in InlineSlurs }

(***************************************************************************)
(* Preprocessing passes                                                    *)
(***************************************************************************)
Slur(idLocal) == [idLocal |-> idLocal, spanned |-> <<>>]

hasBoth(span) == span.startid # NoneVal /\ span.endid # NoneVal

\* one iteration of the loop of _ppSlurs; st = [attr, bundle, count]
ppSlursStep(st, eachSlur) ==
    IF hasBoth(eachSlur)
      THEN LET thisIdLocal == uuid4(st.count + 1)
               withStart == AttrSet(st.attr, removeOctothorpe(eachSlur.startid),
                                    "m21SlurStart", thisIdLocal)
           IN  [attr   |-> AttrSet(withStart, removeOctothorpe(eachSlur.endid),
                                   "m21SlurEnd", thisIdLocal),
                bundle |-> Append(st.bundle, Slur(thisIdLocal)),
                count  |-> st.count + 1]
      ELSE st

RECURSIVE ppSlursFrom(_, _)
ppSlursFrom(st, slurs) ==
    IF slurs = <<>> THEN st
    ELSE ppSlursFrom(ppSlursStep(st, Head(slurs)), Tail(slurs))

ppSlurs(st, ss) == ppSlursFrom(st, iterfind(ss, "slur"))

\* one iteration of the loop of _ppTies
ppTiesStep(attr, eachTie) ==
    IF hasBoth(eachTie)
      THEN AttrSet(AttrSet(attr, removeOctothorpe(eachTie.startid), "tie", <<"i">>),
                   removeOctothorpe(eachTie.endid), "tie", <<"t">>)
      ELSE attr

RECURSIVE ppTiesFrom(_, _)
ppTiesFrom(attr, ties) ==
    IF ties = <<>> THEN attr
    ELSE ppTiesFrom(ppTiesStep(attr, Head(ties)), Tail(ties))

ppTies(attr, ss) == ppTiesFrom(attr, iterfind(ss, "tie"))

\* eachBeam.get('plist', '').split(' '): an absent @plist splits to ['']
plistFields(span) == IF span.plist = NoneVal THEN << <<>> >> ELSE span.plist

\* the body of the @plist loop of _ppBeams: the length test only passes
RECURSIVE ppBeamsPlist(_, _)
ppBeamsPlist(attr, fields) ==
    IF fields = <<>> THEN attr
    ELSE LET eachXmlid == removeOctothorpe(Head(fields))
             touched == AttrTouch(attr, eachXmlid)
         IN  ppBeamsPlist(IF "m21Beam" \notin DOMAIN touched[eachXmlid]
                            THEN AttrSet(touched, eachXmlid, "m21Beam", <<"continue">>)
                            ELSE touched,
                          Tail(fields))

ppBeamsStep(attr, eachBeam) ==
    IF ~hasBoth(eachBeam) THEN attr
    ELSE ppBeamsPlist(
           AttrSet(AttrSet(attr, removeOctothorpe(eachBeam.startid), "m21Beam", <<"start">>),
                   removeOctothorpe(eachBeam.endid), "m21Beam", <<"stop">>),
           plistFields(eachBeam))

RECURSIVE ppBeamsFrom(_, _)
ppBeamsFrom(attr, beams) ==
    IF beams = <<>> THEN attr
    ELSE ppBeamsFrom(ppBeamsStep(attr, Head(beams)), Tail(beams))

ppBeams(attr, ss) == ppBeamsFrom(attr, iterfind(ss, "beamSpan"))

RECURSIVE ppTupletsPlist(_, _, _)
ppTupletsPlist(attr, fields, eachTuplet) ==
    IF fields = <<>> THEN attr
    ELSE LET eachXmlid == removeOctothorpe(Head(fields))
         IN  ppTupletsPlist(
               IF 0 < Len(eachXmlid)
                 THEN AttrSet(AttrSet(attr, eachXmlid, "m21TupletNum", eachTuplet.num),
                              eachXmlid, "m21TupletNumbase", eachTuplet.numbase)
                 ELSE attr,
               Tail(fields), eachTuplet)

\* a faulty variant of ppTupletsSearch: the end identifier does not get @m21TupletNumbase
ppTupletsSearchNoEndNumbase(attr, eachTuplet) ==
    LET startid == removeOctothorpe(eachTuplet.startid)
        endid == removeOctothorpe(eachTuplet.endid)
        s1 == AttrSet(attr, startid, "m21TupletSearch", <<"start">>)
        s2 == AttrSet(s1, startid, "m21TupletNum", eachTuplet.num)
        e1 == AttrSet(s2, endid, "m21TupletSearch", <<"end">>)
    IN  AttrSet(e1, endid, "m21TupletNum", eachTuplet.num)

\* the six assignments of the last branch of _ppTuplets, in order
ppTupletsSearch(attr, eachTuplet) ==
    LET startid == removeOctothorpe(eachTuplet.startid)
        endid == removeOctothorpe(eachTuplet.endid)
        s1 == AttrSet(attr, startid, "m21TupletSearch", <<"start">>)
        s2 == AttrSet(s1, startid, "m21TupletNum", eachTuplet.num)
        s3 == AttrSet(s2, startid, "m21TupletNumbase", eachTuplet.numbase)
        e1 == AttrSet(s3, endid, "m21TupletSearch", <<"end">>)
        e2 == AttrSet(e1, endid, "m21TupletNum", eachTuplet.num)
    IN  AttrSet(e2, endid, "m21TupletNumbase", eachTuplet.numbase)

ppTupletsStep(attr, eachTuplet) ==
    IF ~hasBoth(eachTuplet) /\ eachTuplet.plist = NoneVal THEN attr
    ELSE IF eachTuplet.plist # NoneVal
      THEN ppTupletsPlist(attr, eachTuplet.plist, eachTuplet)
      ELSE ppTupletsSearch(attr, eachTuplet)

RECURSIVE ppTupletsFrom(_, _)
ppTupletsFrom(attr, tuplets) ==
    IF tuplets = <<>> THEN attr
    ELSE ppTupletsFrom(ppTupletsStep(attr, Head(tuplets)), Tail(tuplets))

ppTuplets(attr, ss) == ppTupletsFrom(attr, iterfind(ss, "tupletSpan"))

\* documentRoot.iterfind('*//*'): the descendants of the children of the root
concludeVisits(i) == Elements[i].depth >= 2

\* the elements _ppConclude finds an annotation for
concludeHits(attr) ==
    {i \in ElemIdx : concludeVisits(i) /\ Elements[i].xmlid \in DOMAIN attr}

\* '' + None raises TypeError
concludeRaises(attr) ==
    \E i \in concludeHits(attr) :
        \E a \in DOMAIN attr[Elements[i].xmlid] : attr[Elements[i].xmlid][a] = NoneVal

\* eachObject.set(eachAttr, eachObject.get(eachAttr, '') + m21Attr[id][eachAttr])
concludeOne(own, extra) ==
    [a \in DOMAIN own \cup DOMAIN extra |->
        IF a \in DOMAIN extra THEN DictGet(own, a, <<>>) \o extra[a] ELSE own[a]]

ppConclude(attr, eAttr) ==
    [i \in ElemIdx |->
        IF i \in concludeHits(attr)
          THEN concludeOne(eAttr[i], attr[Elements[i].xmlid])
          ELSE eAttr[i]]

(***************************************************************************)
(* Event conversion                                                        *)
(***************************************************************************)
\* 'x' in attr
contains(attr, x) == \E k \in 1..Len(attr) : attr[k] = x

tieFromAttr(attr) ==
    IF contains(attr, "m") \/ (contains(attr, "t") /\ contains(attr, "i")) THEN "continue"
    ELSE IF contains(attr, "i") THEN "start"
    ELSE "stop"

\* slurBundle.getByIdLocal(theId): the positions of the spanners with that label
getByIdLocal(bundle, theId) == {k \in 1..Len(bundle) : bundle[k].idLocal = theId}

\* a faulty variant of wrapGetByIdLocal: a label that is not registered gets a new spanner
wrapGetByIdLocalCreating(bundle, theId, obj) ==
    LET found == getByIdLocal(bundle, theId)
    IN  IF found = {} THEN Append(bundle, [idLocal |-> theId, spanned |-> <<obj>>])
        ELSE LET first == CHOOSE k \in found : \A j \in found : k <= j
             IN  [bundle EXCEPT ![first].spanned = Append(@, obj)]

\* getByIdLocal(theId)[0].addSpannedElements(obj), IndexError swallowed
wrapGetByIdLocal(bundle, theId, obj) ==
    LET found == getByIdLocal(bundle, theId)
    IN  IF found = {} THEN bundle
        ELSE LET first == CHOOSE k \in found : \A j \in found : k <= j
             IN  [bundle EXCEPT ![first].spanned = Append(@, obj)]

\* the loop of addSlurs over the tokens of @slur
RECURSIVE addInlineSlurs(_, _, _)
addInlineSlurs(bundle, tokens, obj) ==
    IF tokens = <<>> THEN bundle
    ELSE LET slurNum == <<Head(tokens)[1]>>
             slurType == Head(tokens)[2]
             next == IF slurType = "i"
                       THEN Append(bundle, [idLocal |-> slurNum, spanned |-> <<obj>>])
                     ELSE IF slurType = "t"
                       THEN wrapGetByIdLocal(bundle, slurNum, obj)
                     ELSE bundle
         IN  addInlineSlurs(next, Tail(tokens), obj)

addSlurs(attrs, obj, bundle) ==
    LET b1 == IF "m21SlurStart" \in DOMAIN attrs
                THEN wrapGetByIdLocal(bundle, attrs["m21SlurStart"], obj) ELSE bundle
        b2 == IF "m21SlurEnd" \in DOMAIN attrs
                THEN wrapGetByIdLocal(b1, attrs["m21SlurEnd"], obj) ELSE b1
    IN  addInlineSlurs(b2, DictGet(attrs, "slur", <<>>), obj)

\* the Note built by noteFromElement from element i with attribute set attrs
noteFromElement(i, attrs) ==
    LET searching == "m21TupletNum" \in DOMAIN attrs /\ "m21TupletSearch" \in DOMAIN attrs
        scaled == "m21TupletNum" \in DOMAIN attrs /\ "m21TupletSearch" \notin DOMAIN attrs
    IN  [elem    |-> i,
         id      |-> Elements[i].xmlid,
         tie     |-> IF "tie" \in DOMAIN attrs THEN tieFromAttr(attrs["tie"]) ELSE "none",
         beams   |-> IF "m21Beam" \in DOMAIN attrs /\ Elements[i].dur > 4
                       THEN attrs["m21Beam"] ELSE <<>>,
         search  |-> IF searching THEN attrs["m21TupletSearch"] ELSE <<>>,
         tuplets |-> IF scaled
                       THEN << [num |-> attrs["m21TupletNum"],
                                numbase |-> DictGet(attrs, "m21TupletNumbase", NoneVal),
                                type |-> "none"] >>
                       ELSE <<>>]

(***************************************************************************)
(* MeiToM21Converter.run                                                   *)
(***************************************************************************)
\* theDocument: the markup as a sequence of tags.  It gives the skeleton of the
\* document; the notes and spanning elements of its score are Elements and
\* spans.
Open(tag) == [kind |-> "open", tag |-> tag]

Close(tag) == [kind |-> "close", tag |-> tag]

Empty(tag) == [kind |-> "empty", tag |-> tag]

\* ETree.fromstring: the elements in document order with their depth, or a
\* ParseError when the tags do not nest into one root element
RECURSIVE fromstring(_, _, _, _)
fromstring(text, stack, elems, rootClosed) ==
    IF text = <<>>
      THEN [ok |-> stack = <<>> /\ rootClosed, elems |-> elems]
    ELSE LET token == Head(text)
             here == [tag |-> token.tag, depth |-> Len(stack)]
         IN  CASE token.kind = "open" ->
                    IF rootClosed THEN [ok |-> FALSE, elems |-> elems]
                    ELSE fromstring(Tail(text), Append(stack, token.tag),
                                    Append(elems, here), FALSE)
               [] token.kind = "empty" ->
                    IF rootClosed THEN [ok |-> FALSE, elems |-> elems]
                    ELSE fromstring(Tail(text), stack, Append(elems, here), stack = <<>>)
               [] token.kind = "close" ->
                    IF stack = <<>> \/ stack[Len(stack)] # token.tag
                      THEN [ok |-> FALSE, elems |-> elems]
                    ELSE fromstring(Tail(text), SubSeq(stack, 1, Len(stack) - 1), elems,
                                    Len(stack) = 1)

INVALID_XML_DOC == <<"MEI document is not valid XML.">>

WRONG_ROOT_ELEMENT(tag) == <<"Root element should be <mei>, not", tag>>

\* MeiToM21Converter(theDocument) for a string
construct(theDocument) ==
    LET parsedText == fromstring(theDocument, <<>>, <<>>, FALSE)
    IN  IF ~parsedText.ok THEN Raises("MeiValidityError", INVALID_XML_DOC)
        ELSE IF parsedText.elems[1].tag # "mei"
          THEN Raises("MeiElementError", WRONG_ROOT_ELEMENT(parsedText.elems[1].tag))
        ELSE Returns([documentRoot |-> parsedText.elems])

\* documentRoot.findall('.//music//score//staffDef') finds something
hasStaffDef(elems) ==
    \E m, sc, sd \in 1..Len(elems) :
        /\ elems[m].tag = "music" /\ elems[sc].tag = "score" /\ elems[sd].tag = "staffDef"
        /\ m > 1 /\ m < sc /\ sc < sd
        /\ \A k \in (m + 1)..sd : elems[k].depth > elems[m].depth
        /\ \A k \in (sc + 1)..sd : elems[k].depth > elems[sc].depth

\* the documents handed to the converter
Texts ==
    { << Open("mei"), Open("music"), Open("score"), Empty("staffDef"), Empty("section"),
         Close("score"), Close("music"), Close("mei") >>,
      << Open("mei"), Open("music"), Open("score"), Empty("section"),
         Close("score"), Close("music"), Close("mei") >>,
      << Open("mei"), Open("music"), Empty("staffDef"), Open("score"), Empty("section"),
         Close("score"), Close("music"), Close("mei") >>,
      << Open("score"), Empty("staffDef"), Close("score") >>,
      << Open("mei"), Open("music"), Empty("staffDef"), Close("mei") >>,
      << Open("mei"), Close("mei"), Empty("staffDef") >>,
      << >> }

\* a faulty variant of runOrder: the assembler starts before _ppConclude has run
runOrderAssembleEarly ==
    << "_ppSlurs", "_ppTies", "_ppBeams", "_ppTuplets", "allPartsPresent",
       "measures", "_ppConclude", "makeScore" >>

\* the calls of run, in the order it makes them
runOrder ==
    << "_ppSlurs", "_ppTies", "_ppBeams", "_ppTuplets", "_ppConclude",
       "allPartsPresent", "measures", "makeScore" >>

\* the functions below are not under test while run is
NoBeamCall == someThings = <<>> /\ thingsBefore = <<>> /\ beamCall = "idle"
NoGuessCall == theLayer = <<>> /\ layerBefore = <<>> /\ guessCall = "idle"
NoMeasureCall ==
    /\ measureElem = <<>> /\ expectedNs = {} /\ activeMeter = NoMeter
    /\ staves = EmptyDict /\ measureCall = "idle"

NoAssembleCall ==
    /\ document = <<>> /\ allPartNs = <<>> /\ parsed = EmptyDict /\ inNextMeasure = EmptyDict
    /\ meterInRun = NoMeter /\ nextMeasureLeft = NoMeter /\ backupMeasureNum = 0
    /\ position = 0 /\ assembled = NoScore /\ assembleCall = "idle"

NoCall == call = [fn |-> "none"] /\ result = [raised |-> "idle"]

\* run is not under test while one function is
NoRun ==
    /\ pc = 0 /\ raised = "none" /\ spans = <<>> /\ docAttr = <<>> /\ elemAttr = <<>>
    /\ m21Attr = EmptyDict /\ slurBundle = <<>> /\ uuidCount = 0 /\ done = {}
    /\ nextElem = 1 /\ converted = <<>> /\ theScore = NoScore
    /\ ppEnd = [m21Attr |-> EmptyDict, slurBundle |-> <<>>, taken |-> FALSE]

\* run is at the step: the converter was constructed and run has not raised
at(step) ==
    /\ result.raised = "none"
    /\ raised = "none" /\ pc \in 1..Len(runOrder) /\ runOrder[pc] = step

Init ==
    /\ pc = 1
    /\ raised = "none"
    /\ spans \in SpanSeqs
    /\ docAttr \in InitialAttrs
    /\ elemAttr = docAttr
    /\ m21Attr = EmptyDict
    /\ slurBundle = <<>>
    /\ uuidCount = 0
    /\ done = {}
    /\ nextElem = 1
    /\ converted = <<>>
    /\ ppEnd = [m21Attr |-> EmptyDict, slurBundle |-> <<>>, taken |-> FALSE]
    /\ theScore = NoScore
    /\ \E theDocument \in Texts :
          call = [fn |-> "MeiToM21Converter", theDocument |-> theDocument]
    /\ result = Pending
    /\ NoBeamCall /\ NoGuessCall /\ NoMeasureCall /\ NoAssembleCall

\* the first time the assembler runs, remember what preprocessing left
snapshot ==
    IF ppEnd.taken THEN ppEnd
    ELSE [m21Attr |-> m21Attr, slurBundle |-> slurBundle, taken |-> TRUE]

\* theConverter = MeiToM21Converter(theDocument)
Construct ==
    /\ result = Pending
    /\ result' = construct(call.theDocument)
    /\ UNCHANGED <<call, runVars, beamVars, tupletVars, measureVars, assembleVars>>

PpSlurs ==
    /\ at("_ppSlurs")
    /\ LET r == ppSlurs([attr |-> m21Attr, bundle |-> slurBundle, count |-> uuidCount], spans)
       IN  /\ m21Attr' = r.attr
           /\ slurBundle' = r.bundle
           /\ uuidCount' = r.count
    /\ pc' = pc + 1
    /\ done' = done \cup {"_ppSlurs"}
    /\ UNCHANGED <<raised, spans, docAttr, elemAttr, nextElem, converted, ppEnd, theScore>>
    /\ UNCHANGED <<beamVars, tupletVars, measureVars, assembleVars, callVars>>

PpTies ==
    /\ at("_ppTies")
    /\ m21Attr' = ppTies(m21Attr, spans)
    /\ pc' = pc + 1
    /\ done' = done \cup {"_ppTies"}
    /\ UNCHANGED <<raised, spans, docAttr, elemAttr, slurBundle, uuidCount, nextElem, converted, ppEnd,
                   theScore>>
    /\ UNCHANGED <<beamVars, tupletVars, measureVars, assembleVars, callVars>>

PpBeams ==
    /\ at("_ppBeams")
    /\ m21Attr' = ppBeams(m21Attr, spans)
    /\ pc' = pc + 1
    /\ done' = done \cup {"_ppBeams"}
    /\ UNCHANGED <<raised, spans, docAttr, elemAttr, slurBundle, uuidCount, nextElem, converted, ppEnd,
                   theScore>>
    /\ UNCHANGED <<beamVars, tupletVars, measureVars, assembleVars, callVars>>

PpTuplets ==
    /\ at("_ppTuplets")
    /\ m21Attr' = ppTuplets(m21Attr, spans)
    /\ pc' = pc + 1
    /\ done' = done \cup {"_ppTuplets"}
    /\ UNCHANGED <<raised, spans, docAttr, elemAttr, slurBundle, uuidCount, nextElem, converted, ppEnd,
                   theScore>>
    /\ UNCHANGED <<beamVars, tupletVars, measureVars, assembleVars, callVars>>

PpConclude ==
    /\ at("_ppConclude")
    /\ IF concludeRaises(m21Attr)
         THEN /\ raised' = "TypeError"
              /\ UNCHANGED <<pc, elemAttr, done>>
         ELSE /\ elemAttr' = ppConclude(m21Attr, elemAttr)
              /\ pc' = pc + 1
              /\ UNCHANGED raised
              /\ done' = done \cup {"_ppConclude"}
    /\ UNCHANGED <<spans, docAttr, m21Attr, slurBundle, uuidCount, nextElem, converted,
                   ppEnd, theScore>>
    /\ UNCHANGED <<beamVars, tupletVars, measureVars, assembleVars, callVars>>

AllPartsPresent ==
    /\ at("allPartsPresent")
    /\ IF hasStaffDef(result.value.documentRoot)
         THEN /\ pc' = pc + 1
              /\ done' = done \cup {"allPartsPresent"}
              /\ ppEnd' = snapshot
              /\ UNCHANGED raised
         ELSE /\ raised' = "MeiValidityError"
              /\ UNCHANGED <<pc, done, ppEnd>>
    /\ UNCHANGED <<spans, docAttr, elemAttr, m21Attr, slurBundle, uuidCount, nextElem, converted,
                   theScore>>
    /\ UNCHANGED <<beamVars, tupletVars, measureVars, assembleVars, callVars>>

\* the measure loop of run, one converted event at a time
ConvertNext ==
    /\ at("measures")
    /\ ppEnd' = snapshot
    /\ IF nextElem > Len(Elements)
         THEN /\ pc' = pc + 1
              /\ done' = done \cup {"measures"}
              /\ UNCHANGED <<slurBundle, converted, nextElem>>
         ELSE /\ nextElem' = nextElem + 1
              /\ UNCHANGED <<pc, done>>
              /\ IF nextElem \in NoteIdx
                   THEN /\ converted' = Append(converted,
                                               noteFromElement(nextElem, elemAttr[nextElem]))
                        /\ slurBundle' = addSlurs(elemAttr[nextElem], nextElem, slurBundle)
                   ELSE UNCHANGED <<slurBundle, converted>>
    /\ UNCHANGED <<raised, spans, docAttr, elemAttr, m21Attr, uuidCount, theScore>>
    /\ UNCHANGED <<beamVars, tupletVars, measureVars, assembleVars, callVars>>

\* theScore.append(self.slurBundle.list); return theScore
MakeScore ==
    /\ at("makeScore")
    /\ theScore' = [parts |-> converted, spanners |-> slurBundle, returned |-> TRUE]
    /\ pc' = pc + 1
    /\ done' = done \cup {"makeScore"}
    /\ ppEnd' = snapshot
    /\ UNCHANGED <<raised, spans, docAttr, elemAttr, m21Attr, slurBundle, uuidCount, nextElem, converted>>
    /\ UNCHANGED <<beamVars, tupletVars, measureVars, assembleVars, callVars>>

Next ==
    \/ Construct
    \/ PpSlurs
    \/ PpTies
    \/ PpBeams
    \/ PpTuplets
    \/ PpConclude
    \/ AllPartsPresent
    \/ ConvertNext
    \/ MakeScore

Spec == Init /\ [][Next]_vars

(***************************************************************************)
(* beamTogether                                                            *)
(*                                                                         *)
(* A thing is [cls, type, beams]: its class, its note value as             *)
(* convertTypeToNumber gives it (2 half, 4 quarter, 8 eighth, 16           *)
(* sixteenth) and the types of its Beams object, one per beam.             *)
(***************************************************************************)
\* hasattr(thing, 'beams'): notes and chords have a Beams object
hasBeams(thing) == thing.cls \in {"Note", "Chord"}

\* Beams.fill(type, beamType): one beam per flag of the note value
fill(type, beamType) ==
    IF type >= 16 THEN <<beamType, beamType>>
    ELSE IF type >= 8 THEN <<beamType>>
    ELSE <<>>

\* Beams.setAll(type)
setAll(beams, type) == [k \in 1..Len(beams) |-> type]

\* someThings[p] for a Python index p, which counts from the end when negative
pyIndex(seq, p) == IF p < 0 THEN Len(seq) + p + 1 ELSE p + 1

\* the events the loop of beamTogether gives a beam to
beamEligible(thing) == hasBeams(thing) /\ thing.type > 4 /\ Len(thing.beams) = 0

\* the loop of beamTogether from Python index i on
RECURSIVE beamLoop(_, _, _)
beamLoop(things, i, iLastBeamedNote) ==
    IF i >= Len(things) THEN [things |-> things, iLastBeamedNote |-> iLastBeamedNote]
    ELSE LET thing == things[i + 1]
             beamType == IF iLastBeamedNote = -1 THEN "start" ELSE "continue"
         IN  IF beamEligible(thing)
               THEN beamLoop([things EXCEPT ![i + 1].beams = fill(thing.type, beamType)],
                             i + 1, i)
               ELSE beamLoop(things, i + 1, iLastBeamedNote)

\* a faulty variant of beamTogether: the last beamed event keeps the type the loop gave it
beamTogetherWithoutStop(things) ==
    LET r == beamLoop(things, 0, -1)
    IN  IF Len(things) = 0 THEN [things |-> things, raised |-> "IndexError"]
        ELSE [things |-> r.things, raised |-> "none"]

beamTogether(things) ==
    LET r == beamLoop(things, 0, -1)
        last == pyIndex(r.things, r.iLastBeamedNote)
    IN  IF Len(things) = 0 THEN [things |-> things, raised |-> "IndexError"]
        ELSE IF ~hasBeams(r.things[last])
          THEN [things |-> r.things, raised |-> "AttributeError"]
        ELSE [things |-> [r.things EXCEPT ![last].beams = setAll(@, "stop")],
              raised |-> "none"]

MaxThings == 4

\* what a <beam> or <tuplet> may hold: notes that a <beamSpan> or a nested
\* <beam> has (or has not) beamed already, longer notes, rests and clefs
Things ==
    { [cls |-> "Note", type |-> 8,  beams |-> <<>>],
      [cls |-> "Chord", type |-> 16, beams |-> <<>>],
      [cls |-> "Note", type |-> 8,  beams |-> <<"start">>],
      [cls |-> "Note", type |-> 8,  beams |-> <<"stop">>],
      [cls |-> "Note", type |-> 2,  beams |-> <<>>],
      [cls |-> "Rest", type |-> 8,  beams |-> <<>>] }

InitBeam ==
    /\ someThings \in UNION { [1..n -> Things] : n \in 0..MaxThings }
    /\ thingsBefore = someThings
    /\ beamCall = "ready"
    /\ NoRun /\ NoGuessCall /\ NoMeasureCall /\ NoAssembleCall /\ NoCall

BeamTogether ==
    /\ beamCall = "ready"
    /\ LET r == beamTogether(someThings)
       IN  /\ someThings' = r.things
           /\ beamCall' = IF r.raised = "none" THEN "returned" ELSE r.raised
    /\ UNCHANGED <<thingsBefore, runVars, tupletVars, measureVars, assembleVars, callVars>>

NextBeam == BeamTogether

SpecBeam == InitBeam /\ [][NextBeam]_vars

(***************************************************************************)
(* scaleToTuplet and _guessTuplets                                         *)
(*                                                                         *)
(* An event is [cls, m21TupletSearch, m21TupletNum, m21TupletNumbase,      *)
(* tuplets]; an m21Tuplet attribute the object does not have is NoneVal,   *)
(* and tuplets is duration.tuplets, each [num, numbase, type] with type    *)
(* "none" until one is assigned; grace tells a GraceDuration.              *)
(***************************************************************************)
Digits == <<"0", "1", "2", "3", "4", "5", "6", "7", "8", "9">>

digitValue(d) == (CHOOSE k \in 1..10 : Digits[k] = d) - 1

\* int(s) for a string of decimal digits
RECURSIVE int(_)
int(s) ==
    IF s = <<>> THEN 0
    ELSE 10 * int(SubSeq(s, 1, Len(s) - 1)) + digitValue(s[Len(s)])

\* the decimal digits of a natural number, as ElementTree serialises it
RECURSIVE str(_)
str(n) == IF n < 10 THEN <<Digits[n + 1]>> ELSE str(n \div 10) \o <<Digits[(n % 10) + 1]>>

\* a faulty variant of hasDuration: a grace note counts as having no duration
hasDurationUnlessGrace(obj) == obj.cls \in {"Note", "Rest", "Chord"} /\ ~obj.grace

\* isinstance(obj, (note.Note, note.Rest, chord.Chord))
hasDuration(obj) == obj.cls \in {"Note", "Rest", "Chord"}

\* elem.get('tuplet', '').startswith(c)
startswith(elem, c) ==
    LET tuplet == DictGet(elem, "tuplet", <<>>)
    IN  Len(tuplet) > 0 /\ tuplet[1] = c

\* scaleToTuplet for one object; elem is the attribute set of the Element
scaleToTuplet(obj, elem) ==
    IF ~hasDuration(obj) THEN obj
    ELSE IF "m21TupletSearch" \in DOMAIN elem
      THEN [obj EXCEPT !.m21TupletSearch = elem["m21TupletSearch"],
                       !.m21TupletNum = DictGet(elem, "m21TupletNum", NoneVal),
                       !.m21TupletNumbase = DictGet(elem, "m21TupletNumbase", NoneVal)]
    ELSE LET appended == [obj EXCEPT !.tuplets =
                              Append(@, [num |-> int(elem["m21TupletNum"]),
                                         numbase |-> int(elem["m21TupletNumbase"]),
                                         type |-> "none"])]
         IN  IF "m21TupletType" \in DOMAIN elem
               THEN [appended EXCEPT !.tuplets[1].type = elem["m21TupletType"]]
             ELSE IF startswith(elem, "i")
               THEN [appended EXCEPT !.tuplets[1].type = "start"]
             ELSE IF startswith(elem, "t")
               THEN [appended EXCEPT !.tuplets[1].type = "stop"]
             ELSE appended

\* del eachNote.m21TupletSearch, .m21TupletNum, .m21TupletNumbase
delSearch(obj) ==
    [obj EXCEPT !.m21TupletSearch = NoneVal, !.m21TupletNum = NoneVal,
                !.m21TupletNumbase = NoneVal]

\* ETree.Element('', m21TupletNum=tupletNum, m21TupletNumbase=tupletNumbase):
\* the two integers, which int() in scaleToTuplet reads back unchanged
guessElement(tupletNum, tupletNumbase) ==
    DictPut(DictPut(EmptyDict, "m21TupletNum", str(tupletNum)),
            "m21TupletNumbase", str(tupletNumbase))

\* the loop of _guessTuplets from position i on; tupletNum and tupletNumbase
\* are 0 while they are None in the code
RECURSIVE guessLoop(_, _, _, _, _)
guessLoop(layer, i, inATuplet, tupletNum, tupletNumbase) ==
    IF i > Len(layer) THEN layer
    ELSE IF ~hasDuration(layer[i])
      THEN guessLoop(layer, i + 1, inATuplet, tupletNum, tupletNumbase)
    ELSE LET eachNote == layer[i]
             isStart == eachNote.m21TupletSearch = <<"start">>
             inNow == inATuplet \/ isStart
             num == IF isStart THEN int(eachNote.m21TupletNum) ELSE tupletNum
             numbase == IF isStart THEN int(eachNote.m21TupletNumbase) ELSE tupletNumbase
             afterStart == IF isStart THEN delSearch(eachNote) ELSE eachNote
             scaled == IF inNow THEN scaleToTuplet(afterStart, guessElement(num, numbase))
                       ELSE afterStart
             isEnd == inNow /\ scaled.m21TupletSearch = <<"end">>
             afterEnd == IF isEnd
                           THEN delSearch([scaled EXCEPT !.tuplets[1].type = "stop"])
                         ELSE scaled
         IN  guessLoop([layer EXCEPT ![i] = afterEnd], i + 1, inNow /\ ~isEnd, num, numbase)

guessTuplets(layer) == guessLoop(layer, 1, FALSE, 0, 0)

MaxLayer == 4

Event(cls, search, num, numbase) ==
    [cls |-> cls, m21TupletSearch |-> search, m21TupletNum |-> num,
     m21TupletNumbase |-> numbase, tuplets |-> <<>>, grace |-> FALSE]

\* the Note of a <note grace="..."/>: its duration is a GraceDuration
GraceNote == [Event("Note", NoneVal, NoneVal, NoneVal) EXCEPT !.grace = TRUE]

\* what layerFromElement hands to _guessTuplets: events as the converters of
\* the layer's children built them, some with the search attributes
Events ==
    { Event("Note", NoneVal, NoneVal, NoneVal),
      Event("Rest", NoneVal, NoneVal, NoneVal),
      Event("Clef", NoneVal, NoneVal, NoneVal),
      GraceNote,
      Event("Note", <<"start">>, <<"3">>, <<"2">>),
      Event("Chord", <<"end">>, <<"3">>, <<"2">>) }

InitTuplet ==
    /\ theLayer \in UNION { [1..n -> Events] : n \in 0..MaxLayer }
    /\ layerBefore = theLayer
    /\ guessCall = "ready"
    /\ NoRun /\ NoBeamCall /\ NoMeasureCall /\ NoAssembleCall /\ NoCall

GuessTuplets ==
    /\ guessCall = "ready"
    /\ theLayer' = guessTuplets(theLayer)
    /\ guessCall' = "returned"
    /\ UNCHANGED <<layerBefore, runVars, beamVars, measureVars, assembleVars, callVars>>

NextTuplet == GuessTuplets

SpecTuplet == InitTuplet /\ [][NextTuplet]_vars

(***************************************************************************)
(* measureFromElement                                                      *)
(*                                                                         *)
(* Durations are whole numbers of 2048th notes, the shortest value of      *)
(* _DUR_ATTR_DICT, so that a quarter length of 1.0 is QuarterLength.       *)
(***************************************************************************)
QuarterLength == 512

DUR_ATTR_DICT ==
    [attr \in { <<"long">>, <<"breve">>, <<"1">>, <<"2">>, <<"4">>, <<"8">>, <<"16">>,
                <<"32">>, <<"64">>, <<"128">>, <<"256">>, <<"512">>, <<"1024">>,
                <<"2048">>, NoneVal } |->
        CASE attr = <<"long">>  -> 16 * QuarterLength
          [] attr = <<"breve">> -> 8 * QuarterLength
          [] attr = <<"1">>     -> 4 * QuarterLength
          [] attr = <<"2">>     -> 2 * QuarterLength
          [] attr = <<"4">>     -> QuarterLength
          [] attr = <<"8">>     -> QuarterLength \div 2
          [] attr = <<"16">>    -> QuarterLength \div 4
          [] attr = <<"32">>    -> QuarterLength \div 8
          [] attr = <<"64">>    -> QuarterLength \div 16
          [] attr = <<"128">>   -> QuarterLength \div 32
          [] attr = <<"256">>   -> QuarterLength \div 64
          [] attr = <<"512">>   -> QuarterLength \div 128
          [] attr = <<"1024">>  -> QuarterLength \div 256
          [] attr = <<"2048">>  -> QuarterLength \div 512
          [] attr = NoneVal     -> QuarterLength \div 256]

BAR_ATTR_DICT ==
    [attr \in { <<"dashed">>, <<"dotted">>, <<"dbl">>, <<"end">>, <<"invis">>, <<"single">> } |->
        CASE attr = <<"dashed">> -> "dashed"
          [] attr = <<"dotted">> -> "dotted"
          [] attr = <<"dbl">>    -> "double"
          [] attr = <<"end">>    -> "final"
          [] attr = <<"invis">>  -> "none"
          [] attr = <<"single">> -> "none"]

\* mapping[attr]; MeiValueError when attr is not a key
attrTranslatorRaises(attr, mapping) == attr \notin DOMAIN mapping

attrTranslator(attr, name, mapping) == mapping[attr]

qlDurationFromAttr(attr) == attrTranslator(attr, "dur", DUR_ATTR_DICT)

RECURSIVE pow2(_)
pow2(i) == IF i = 0 THEN 1 ELSE 2 * pow2(i - 1)

\* base + sum(base / 2 ** i for i in 1..dots) in 2048th notes: the value of
\* makeDuration wherever 2 ** dots divides base
RECURSIVE makeDuration(_, _)
makeDuration(base, dots) ==
    IF dots = 0 THEN base ELSE makeDuration(base, dots - 1) + (base \div pow2(dots))

\* the Note of noteFromElement, as far as its duration goes
noteDuration(elem) ==
    [cls |-> "Note", quarterLength |-> makeDuration(qlDurationFromAttr(elem.dur), elem.dots),
     m21wasMRest |-> FALSE]

restFromElement(elem) ==
    [cls |-> "Rest", quarterLength |-> makeDuration(qlDurationFromAttr(elem.dur), elem.dots),
     m21wasMRest |-> FALSE]

spaceFromElement(elem) ==
    [cls |-> "SpacerRest", quarterLength |-> makeDuration(qlDurationFromAttr(elem.dur), elem.dots),
     m21wasMRest |-> FALSE]

mRestFromElement(elem) ==
    IF elem.dur # NoneVal THEN restFromElement(elem)
    ELSE [restFromElement(elem) EXCEPT !.m21wasMRest = TRUE]

mSpaceFromElement(elem) ==
    IF elem.dur # NoneVal THEN spaceFromElement(elem)
    ELSE [spaceFromElement(elem) EXCEPT !.m21wasMRest = TRUE]

\* tagToFunction of layerFromElement
layerChild(elem) ==
    CASE elem.tag = "note"   -> noteDuration(elem)
      [] elem.tag = "rest"   -> restFromElement(elem)
      [] elem.tag = "mRest"  -> mRestFromElement(elem)
      [] elem.tag = "space"  -> spaceFromElement(elem)
      [] elem.tag = "mSpace" -> mSpaceFromElement(elem)

RECURSIVE sumLengths(_)
sumLengths(objs) ==
    IF objs = <<>> THEN 0 ELSE Head(objs).quarterLength + sumLengths(Tail(objs))

MISSING_VOICE_ID == <<"Found a <layer> without @n attribute and no override.">>

\* the <layer> with the given @n (NoneVal when it has none) and children
Layer(n, children) == [tag |-> "layer", n |-> n, children |-> children]

\* theVoice before it has an id: the events appended one after the other
voiceOf(elem) ==
    LET objs == [k \in 1..Len(elem.children) |-> layerChild(elem.children[k])]
    IN  [id |-> NoneVal, objs |-> objs, duration |-> sumLengths(objs)]

\* a faulty variant of layerFromElement: @n wins over the override and a
\* Voice without id is returned when there is neither
layerFromElementUnchecked(elem, overrideN) ==
    IF elem.n # NoneVal THEN Returns([voiceOf(elem) EXCEPT !.id = elem.n])
    ELSE Returns([voiceOf(elem) EXCEPT !.id = overrideN])

\* "if overrideN:" is false for None and for the empty string
layerFromElement(elem, overrideN) ==
    IF overrideN # NoneVal /\ overrideN # <<>>
      THEN Returns([voiceOf(elem) EXCEPT !.id = overrideN])
    ELSE IF elem.n # NoneVal
      THEN Returns([voiceOf(elem) EXCEPT !.id = elem.n])
    ELSE Raises("MeiAttributeError", MISSING_VOICE_ID)

\* the Voices of staffFromElement, numbered '1', '2', ... in document order
staffFromElement(elem) ==
    [k \in 1..Len(elem.layers) |-> layerFromElement(elem.layers[k], str(k)).value]

RECURSIVE highestTime(_)
highestTime(voices) ==
    IF voices = <<>> THEN 0
    ELSE LET rest == highestTime(Tail(voices))
         IN  IF Head(voices).duration > rest THEN Head(voices).duration ELSE rest

\* a Measure's rightBarline before one is assigned
NoBarline == [cls |-> "NoneType"]

\* stream.Measure(voices, number=number)
Measure(voices, number) ==
    [cls |-> "Measure", number |-> number, voices |-> voices,
     duration |-> highestTime(voices), rightBarline |-> NoBarline,
     leftBarline |-> NoBarline, atStart |-> <<>>, padded |-> FALSE]

\* a faulty variant of correctVoice: the placeholders get their length and
\* lose their tag, the Voice keeps its duration
correctVoiceKeepingDuration(voice, targetLength) ==
    [voice EXCEPT !.objs = [k \in 1..Len(voice.objs) |->
                              IF voice.objs[k].m21wasMRest
                                THEN [voice.objs[k] EXCEPT !.quarterLength = targetLength,
                                                           !.m21wasMRest = FALSE]
                                ELSE voice.objs[k]]]

\* _correctMRestDurs for one Voice
correctVoice(voice, targetLength) ==
    IF \E k \in 1..Len(voice.objs) : voice.objs[k].m21wasMRest
      THEN [voice EXCEPT !.duration = targetLength,
                         !.objs = [k \in 1..Len(voice.objs) |->
                                     IF voice.objs[k].m21wasMRest
                                       THEN [voice.objs[k] EXCEPT !.quarterLength = targetLength,
                                                                  !.m21wasMRest = FALSE]
                                       ELSE voice.objs[k]]]
      ELSE voice

correctMRestDurs(stavesDict, targetLength) ==
    [n \in DOMAIN stavesDict |->
        LET eachMeasure == stavesDict[n]
            hit == \E v \in 1..Len(eachMeasure.voices) :
                      \E k \in 1..Len(eachMeasure.voices[v].objs) :
                          eachMeasure.voices[v].objs[k].m21wasMRest
        IN  [eachMeasure EXCEPT
                !.voices = [v \in 1..Len(eachMeasure.voices) |->
                               correctVoice(eachMeasure.voices[v], targetLength)],
                !.duration = IF hit THEN targetLength ELSE @]]

Repeat(direction) == [cls |-> "Repeat", direction |-> direction]

Barline(style) == [cls |-> "Barline", style |-> style]

\* attr is the attribute's value split after a leading 'rpt'
barlineFromAttr(attr) ==
    IF attr[1] = "rpt"
      THEN IF attr = <<"rpt", "both">>
             THEN [cls |-> "tuple", items |-> <<Repeat("end"), Repeat("start")>>]
           ELSE IF attr = <<"rpt", "end">> THEN Repeat("end")
           ELSE Repeat("start")
      ELSE Barline(attrTranslator(attr, "right", BAR_ATTR_DICT))

\* hasattr(barz, '__len__')
hasLen(barz) == barz.cls = "tuple"

\* eachMeasure.rightBarline = barz for every Measure of the dict
setRightBarline(stavesDict, barz) ==
    [n \in DOMAIN stavesDict |->
        IF stavesDict[n].cls = "Measure"
          THEN [stavesDict[n] EXCEPT !.rightBarline = barz]
          ELSE stavesDict[n]]

backupNum == 3

\* maxBarDuration = None; every duration is 0 or more
NoDuration == -1

\* the largest duration of the <staff> elements from position k on
RECURSIVE maxDuration(_, _, _)
maxDuration(measures, k, maxBarDuration) ==
    IF k > Len(measures) THEN maxBarDuration
    ELSE LET thisBarDuration == measures[k].duration
         IN  maxDuration(measures, k + 1,
                         IF maxBarDuration = NoDuration THEN thisBarDuration
                         ELSE IF maxBarDuration < thisBarDuration THEN thisBarDuration
                         ELSE maxBarDuration)

RECURSIVE staffMeasures(_, _, _)
staffMeasures(stavesDict, staffs, measures) ==
    IF staffs = <<>> THEN stavesDict
    ELSE staffMeasures(DictPut(stavesDict, Head(staffs).n, Head(measures)),
                       Tail(staffs), Tail(measures))

measureFromElement(elem, backup, expected, meter) ==
    LET number == IF elem.n # NoneVal THEN int(elem.n) ELSE backup
        measures == [k \in 1..Len(elem.staffs) |->
                        Measure(staffFromElement(elem.staffs[k]), number)]
        maxBarDuration == maxDuration(measures, 1, NoDuration)
        found == staffMeasures(EmptyDict, elem.staffs, measures)
        restVoice == [id |-> <<"1">>,
                      objs |-> << [cls |-> "Rest", quarterLength |-> maxBarDuration,
                                   m21wasMRest |-> FALSE] >>,
                      duration |-> maxBarDuration]
        filled == [n \in DOMAIN found \cup expected |->
                      IF n \in DOMAIN found THEN found[n]
                      ELSE Measure(<<restVoice>>, number)]
        allPlaceholders == /\ maxBarDuration = DUR_ATTR_DICT[NoneVal]
                           /\ meter # NoMeter
                           /\ maxBarDuration # meter.totalLength
        corrected == IF allPlaceholders THEN correctMRestDurs(filled, meter.totalLength)
                     ELSE correctMRestDurs(filled, maxBarDuration)
        leftBarz == barlineFromAttr(elem.left)
        withLeft == IF elem.left # NoneVal
                      THEN setRightBarline(corrected,
                                           IF hasLen(leftBarz) THEN leftBarz.items[2] ELSE leftBarz)
                      ELSE corrected
        rightBarz == barlineFromAttr(elem.right)
    IN  IF elem.right # NoneVal
          THEN IF hasLen(rightBarz)
                 THEN setRightBarline(DictPut(withLeft, <<"next @left">>, rightBarz.items[2]),
                                      rightBarz.items[1])
                 ELSE setRightBarline(withLeft, rightBarz)
          ELSE withLeft

MaxStaves == 2

\* the one <layer> a <staff> of the measure holds: one event, or an <mRest>
\* without @dur followed by a quarter note
Layers ==
    { Layer(NoneVal, << [tag |-> t, dur |-> d, dots |-> 0] >>) :
        <<t, d>> \in { <<"mRest", NoneVal>>, <<"mSpace", NoneVal>>, <<"mRest", <<"1">> >>,
                       <<"note", <<"1">> >>, <<"note", <<"2">> >>, <<"note", <<"4">> >>,
                       <<"note", <<"1024">> >> } }
    \cup { Layer(NoneVal, << [tag |-> "mRest", dur |-> NoneVal, dots |-> 0],
                             [tag |-> "note", dur |-> <<"4">>, dots |-> 0] >>) }

Measures ==
    { [n |-> num, left |-> l, right |-> r,
       staffs |-> [k \in 1..Len(ls) |-> [n |-> str(k), layers |-> <<ls[k]>>]]] :
        num \in {NoneVal, <<"7">>},
        l \in {NoneVal, <<"rpt", "both">>},
        r \in {NoneVal, <<"rpt", "both">>, <<"dbl">>},
        ls \in UNION { [1..k -> Layers] : k \in 1..MaxStaves } }

Meters ==
    { NoMeter,
      [cls |-> "TimeSignature", totalLength |-> 4 * QuarterLength],
      [cls |-> "TimeSignature", totalLength |-> 3 * QuarterLength] }

InitMeasure ==
    /\ measureElem \in Measures
    /\ \E extra \in 0..1 :
          expectedNs = {str(k) : k \in 1..(Len(measureElem.staffs) + extra)}
    /\ activeMeter \in Meters
    /\ staves = EmptyDict
    /\ measureCall = "ready"
    /\ NoRun /\ NoBeamCall /\ NoGuessCall /\ NoAssembleCall /\ NoCall

MeasureFromElement ==
    /\ measureCall = "ready"
    /\ staves' = measureFromElement(measureElem, backupNum, expectedNs, activeMeter)
    /\ measureCall' = "returned"
    /\ UNCHANGED <<measureElem, expectedNs, activeMeter, runVars, beamVars, tupletVars,
                   assembleVars, callVars>>

NextMeasure == MeasureFromElement

SpecMeasure == InitMeasure /\ [][NextMeasure]_vars

(***************************************************************************)
(* run, from allPartsPresent to the returned Score                         *)
(*                                                                         *)
(* The document is [scoreDef, sections]: the <scoreDef> child of <score>   *)
(* (NoElement when there is none) with its <staffDef> elements, and the    *)
(* children of each <section> in document order.                           *)
(***************************************************************************)
NoElement == [tag |-> "None"]

RECURSIVE flatten(_)
flatten(seqs) == IF seqs = <<>> THEN <<>> ELSE Head(seqs) \o flatten(Tail(seqs))

RECURSIVE select(_, _)
select(objs, tag) ==
    IF objs = <<>> THEN <<>>
    ELSE (IF Head(objs).tag = tag THEN <<Head(objs)>> ELSE <<>>) \o select(Tail(objs), tag)

\* documentRoot.findall('.//music//score//staffDef'), document order
findallStaffDef(doc) ==
    (IF doc.scoreDef = NoElement THEN <<>> ELSE doc.scoreDef.staffDefs)
    \o select(flatten(doc.sections), "staffDef")

\* documentRoot.find('.//music//scoreDef'): the first in document order
findScoreDef(doc) ==
    IF doc.scoreDef # NoElement THEN doc.scoreDef
    ELSE LET found == select(flatten(doc.sections), "scoreDef")
         IN  IF found = <<>> THEN NoElement ELSE Head(found)

\* documentRoot.find('.//music//staffDef[@n="N"]'); a <staffDef> without @n
\* matches no N
findStaffDef(doc, n) ==
    LET all == findallStaffDef(doc)
        hits == {k \in 1..Len(all) : all[k].n # NoneVal /\ all[k].n = n}
    IN  IF n = NoneVal \/ hits = {} THEN NoElement
        ELSE all[CHOOSE k \in hits : \A j \in hits : k <= j]

\* iterfind('.//music//score//*[measure]'): the children of every element
\* that has a <measure> child
sectionObjects(doc) ==
    flatten([k \in 1..Len(doc.sections) |->
                IF select(doc.sections[k], "measure") # <<>> THEN doc.sections[k] ELSE <<>>])

\* a faulty variant of partNsFrom: a repeated @n is listed again
partNsWithRepeats(staffDefs, partNs) ==
    partNs \o [k \in 1..Len(staffDefs) |-> staffDefs[k].n]

\* the loop of allPartsPresent
RECURSIVE partNsFrom(_, _)
partNsFrom(staffDefs, partNs) ==
    IF staffDefs = <<>> THEN partNs
    ELSE partNsFrom(Tail(staffDefs),
                    IF \E k \in 1..Len(partNs) : partNs[k] = Head(staffDefs).n
                      THEN partNs ELSE Append(partNs, Head(staffDefs).n))

allPartsPresent(doc) ==
    LET partNs == partNsFrom(findallStaffDef(doc), <<>>)
    IN  IF Len(partNs) = 0 THEN [partNs |-> <<>>, raised |-> "MeiValidityError"]
        ELSE [partNs |-> partNs, raised |-> "none"]

\* meter.TimeSignature('count/unit')
timeSigFromAttrs(elem) ==
    [cls |-> "TimeSignature",
     totalLength |-> int(elem.count) * ((4 * QuarterLength) \div int(elem.unit))]

sharpsFromAttr(signature) ==
    IF signature[1] = "0" THEN 0
    ELSE IF signature[Len(signature)] = "s" THEN int(<<signature[1]>>)
    ELSE (-1) * int(<<signature[1]>>)

keySigFromAttrs(elem) == [cls |-> "KeySignature", sharps |-> sharpsFromAttr(elem.keysig)]

\* the 'all-part objects' of scoreDefFromElement
scoreDefFromElement(elem) ==
    (IF elem.count # NoneVal THEN <<timeSigFromAttrs(elem)>> ELSE <<>>)
    \o (IF elem.keysig # NoneVal THEN <<keySigFromAttrs(elem)>> ELSE <<>>)

\* the values of the dict staffDefFromElement returns
staffDefFromElement(elem) ==
    << [cls |-> "Instrument", partId |-> elem.n] >>
    \o (IF elem.count # NoneVal THEN <<timeSigFromAttrs(elem)>> ELSE <<>>)

\* the first TimeSignature of things, NoMeter without one
firstMeter(things) ==
    LET hits == {k \in 1..Len(things) : things[k].cls = "TimeSignature"}
    IN  IF hits = {} THEN NoMeter ELSE things[CHOOSE k \in hits : \A j \in hits : k <= j]

\* the last TimeSignature of things, NoMeter without one
lastMeter(things) ==
    LET hits == {k \in 1..Len(things) : things[k].cls = "TimeSignature"}
    IN  IF hits = {} THEN NoMeter ELSE things[CHOOSE k \in hits : \A j \in hits : j <= k]

Range(seq) == {seq[k] : k \in 1..Len(seq)}

\* "set the initial Instrument for each staff": the things of the first
\* <staffDef> of every staff, in the order of allPartNs
initialThings(doc, partNs) ==
    [n \in Range(partNs) |-> staffDefFromElement(findStaffDef(doc, n))]

MaxObjects == 3

StaffDef(n, count, unit) == [tag |-> "staffDef", n |-> n, count |-> count, unit |-> unit]

ScoreDef(count, unit, keysig, staffDefs) ==
    [tag |-> "scoreDef", count |-> count, unit |-> unit, keysig |-> keysig,
     staffDefs |-> staffDefs]

\* a <measure> whose <staff> elements have the given @n and hold one quarter note
MeasureElem(ns, right) ==
    [tag |-> "measure", n |-> NoneVal, left |-> NoneVal, right |-> right,
     staffs |-> [k \in 1..Len(ns) |->
                    [n |-> ns[k],
                     layers |-> << Layer(<<"1">>,
                                         << [tag |-> "note", dur |-> <<"4">>, dots |-> 0] >>) >>]]]

\* a <measure> whose <staff n="1"> holds <layer n="2"> before <layer n="1">,
\* a quarter note in each, and whose <staff n="2"> holds one <layer n="1">
TwoLayerMeasure ==
    [MeasureElem(<< <<"1">>, <<"2">> >>, NoneVal) EXCEPT
        !.staffs[1].layers =
            << Layer(<<"2">>, << [tag |-> "note", dur |-> <<"4">>, dots |-> 0] >>),
               Layer(<<"1">>, << [tag |-> "note", dur |-> <<"4">>, dots |-> 0] >>) >>]

\* the <scoreDef> a <score> may begin with
HeadScoreDefs ==
    { NoElement,
      ScoreDef(NoneVal, NoneVal, <<"1", "s">>,
               << StaffDef(<<"1">>, NoneVal, NoneVal), StaffDef(<<"2">>, NoneVal, NoneVal),
                  StaffDef(<<"1">>, NoneVal, NoneVal) >>),
      ScoreDef(<<"4">>, <<"4">>, NoneVal,
               << StaffDef(<<"2">>, NoneVal, NoneVal), StaffDef(<<"1">>, <<"2">>, <<"4">>) >>),
      ScoreDef(<<"4">>, <<"4">>, NoneVal, <<>>) }

\* the children a <section> may have
SectionObjects ==
    { MeasureElem(<< <<"1">>, <<"2">> >>, NoneVal),
      MeasureElem(<< <<"1">>, <<"2">> >>, <<"rpt", "both">>),
      MeasureElem(<< <<"1">>, <<"3">> >>, <<"rpt", "both">>),
      TwoLayerMeasure,
      ScoreDef(<<"3">>, <<"4">>, NoneVal, <<>>),
      ScoreDef(NoneVal, NoneVal, <<"2", "f">>, <<>>),
      StaffDef(<<"2">>, <<"3">>, <<"4">>),
      StaffDef(NoneVal, NoneVal, NoneVal) }

\* a <score> with its sections' children in one section, or with a section
\* boundary after the first child
Documents ==
    { [scoreDef |-> head,
       sections |-> LET cut == IF early /\ Len(objs) > 0 THEN 1 ELSE Len(objs)
                    IN  << SubSeq(objs, 1, cut), SubSeq(objs, cut + 1, Len(objs)) >>] :
        head \in HeadScoreDefs,
        objs \in UNION { [1..k -> SectionObjects] : k \in 0..MaxObjects },
        early \in BOOLEAN }

InitAssemble ==
    /\ document \in Documents
    /\ allPartNs = <<>>
    /\ parsed = EmptyDict
    /\ inNextMeasure = EmptyDict
    /\ meterInRun = NoMeter
    /\ nextMeasureLeft = NoBarline
    /\ backupMeasureNum = 0
    /\ position = 0
    /\ assembled = NoScore
    /\ assembleCall = "allPartsPresent"
    /\ NoRun /\ NoBeamCall /\ NoGuessCall /\ NoMeasureCall /\ NoCall

\* allPartNs, parsed, inNextMeasure and the initial things of each staff
PrepareParts ==
    /\ assembleCall = "allPartsPresent"
    /\ LET r == allPartsPresent(document)
       IN  IF r.raised # "none"
             THEN /\ assembleCall' = r.raised
                  /\ UNCHANGED <<allPartNs, parsed, inNextMeasure, meterInRun>>
           ELSE IF NoneVal \in Range(r.partNs)
             \* find() returns None and staffDefFromElement(None) calls None.find
             THEN /\ assembleCall' = "AttributeError"
                  /\ allPartNs' = r.partNs
                  /\ UNCHANGED <<parsed, inNextMeasure, meterInRun>>
           ELSE LET things == initialThings(document, r.partNs)
                IN  /\ allPartNs' = r.partNs
                    /\ parsed' = things
                    /\ inNextMeasure' = [n \in Range(r.partNs) |-> <<>>]
                    /\ meterInRun' = firstMeter(flatten([k \in 1..Len(r.partNs) |->
                                                           things[r.partNs[k]]]))
                    /\ assembleCall' = "scoreDef"
    /\ UNCHANGED <<document, nextMeasureLeft, backupMeasureNum, position, assembled>>
    /\ UNCHANGED <<runVars, beamVars, tupletVars, measureVars, callVars>>

\* "process a <scoreDef> tag that happen before a <section> tag"
FirstScoreDef ==
    /\ assembleCall = "scoreDef"
    /\ LET found == findScoreDef(document)
           objs == IF found = NoElement THEN <<>> ELSE scoreDefFromElement(found)
       IN  /\ inNextMeasure' = [n \in DOMAIN inNextMeasure |-> inNextMeasure[n] \o objs]
           /\ meterInRun' = IF meterInRun = NoMeter THEN firstMeter(objs) ELSE meterInRun
    /\ assembleCall' = "sections"
    /\ UNCHANGED <<document, allPartNs, parsed, nextMeasureLeft, backupMeasureNum, position,
                   assembled>>
    /\ UNCHANGED <<runVars, beamVars, tupletVars, measureVars, callVars>>

\* the next child of a section, while the loop of run is at one
atObject(tag) ==
    /\ assembleCall = "sections"
    /\ position < Len(sectionObjects(document))
    /\ sectionObjects(document)[position + 1].tag = tag

\* a faulty variant of flushed: the queues are kept
notFlushed(queues) == queues

\* inNextMeasure[eachN] = [] for every staff, after the queue's objects were
\* inserted
flushed(queues) == [n \in DOMAIN queues |-> <<>>]

\* a faulty variant of carriedLeft: without a new barline the old one stays
carriedLeftKept(measureResult, previous) ==
    IF <<"next @left">> \in DOMAIN measureResult
      THEN measureResult[<<"next @left">>] ELSE previous

\* nextMeasureLeft after a measure: its 'next @left', None without one
carriedLeft(measureResult, previous) ==
    IF <<"next @left">> \in DOMAIN measureResult
      THEN measureResult[<<"next @left">>] ELSE NoBarline

\* a faulty variant of appended: the Measure is put before the Part's objects
insertedFirst(part, eachMeasure) == <<eachMeasure>> \o part

\* parsed[eachN].append(measureResult[eachN])
appended(part, eachMeasure) == Append(part, eachMeasure)

ProcessMeasure ==
    /\ atObject("measure")
    /\ LET eachObject == sectionObjects(document)[position + 1]
           measureResult == measureFromElement(eachObject, backupMeasureNum + 1,
                                               Range(allPartNs), meterInRun)
       IN  /\ parsed' = [n \in DOMAIN parsed |->
                           appended(parsed[n],
                                    [measureResult[n] EXCEPT
                                        !.atStart = inNextMeasure[n],
                                        !.padded = (backupMeasureNum + 1 = 1),
                                        !.leftBarline = IF nextMeasureLeft # NoBarline
                                                          THEN nextMeasureLeft ELSE @])]
           /\ nextMeasureLeft' = carriedLeft(measureResult, nextMeasureLeft)
    /\ inNextMeasure' = flushed(inNextMeasure)
    /\ backupMeasureNum' = backupMeasureNum + 1
    /\ position' = position + 1
    /\ UNCHANGED <<document, allPartNs, meterInRun, assembled, assembleCall>>
    /\ UNCHANGED <<runVars, beamVars, tupletVars, measureVars, callVars>>

ProcessScoreDef ==
    /\ atObject("scoreDef")
    /\ LET objs == scoreDefFromElement(sectionObjects(document)[position + 1])
       IN  /\ inNextMeasure' = [n \in DOMAIN inNextMeasure |-> inNextMeasure[n] \o objs]
           /\ meterInRun' = IF lastMeter(objs) # NoMeter THEN lastMeter(objs) ELSE meterInRun
    /\ position' = position + 1
    /\ UNCHANGED <<document, allPartNs, parsed, nextMeasureLeft, backupMeasureNum, assembled,
                   assembleCall>>
    /\ UNCHANGED <<runVars, beamVars, tupletVars, measureVars, callVars>>

ProcessStaffDef ==
    /\ atObject("staffDef")
    /\ LET eachObject == sectionObjects(document)[position + 1]
           whichPart == eachObject.n
           things == staffDefFromElement(eachObject)
       IN  IF whichPart # NoneVal
             THEN /\ parsed' = [parsed EXCEPT ![whichPart] = @ \o things]
                  /\ meterInRun' = IF lastMeter(things) # NoMeter THEN lastMeter(things)
                                   ELSE meterInRun
             ELSE UNCHANGED <<parsed, meterInRun>>
    /\ position' = position + 1
    /\ UNCHANGED <<document, allPartNs, inNextMeasure, nextMeasureLeft, backupMeasureNum,
                   assembled, assembleCall>>
    /\ UNCHANGED <<runVars, beamVars, tupletVars, measureVars, callVars>>

\* parsed = [parsed[n] for n in allPartNs]; theScore = stream.Score(parsed)
ReturnScore ==
    /\ assembleCall = "sections"
    /\ position = Len(sectionObjects(document))
    /\ assembled' = [parts |-> [k \in 1..Len(allPartNs) |-> parsed[allPartNs[k]]],
                     spanners |-> <<>>, returned |-> TRUE]
    /\ assembleCall' = "returned"
    /\ UNCHANGED <<document, allPartNs, parsed, inNextMeasure, meterInRun, nextMeasureLeft,
                   backupMeasureNum, position>>
    /\ UNCHANGED <<runVars, beamVars, tupletVars, measureVars, callVars>>

NextAssemble ==
    \/ PrepareParts
    \/ FirstScoreDef
    \/ ProcessMeasure
    \/ ProcessScoreDef
    \/ ProcessStaffDef
    \/ ReturnScore

SpecAssemble == InitAssemble /\ [][NextAssemble]_vars

(***************************************************************************)
(* The functions called one at a time                                      *)
(*                                                                         *)
(* call is the function with its arguments; result is [raised |-> "none",  *)
(* value |-> v] when it returned v, and [raised |-> E, value |-> m] when   *)
(* it raised E with the message's parts m.  An attribute's value is one    *)
(* token, except that a leading 'rpt' is a token of its own.               *)
(***************************************************************************)
\* _UNEXPECTED_ATTR_VALUE.format(name, attr)
UNEXPECTED_ATTR_VALUE(name, attr) == <<"Unexpected value for attribute", name, attr>>

ACCID_ATTR_DICT ==
    [attr \in { <<"s">>, <<"f">>, <<"ss">>, <<"x">>, <<"ff">>, <<"xs">>, <<"ts">>, <<"tf">>,
                <<"n">>, <<"nf">>, <<"ns">>, <<"su">>, <<"sd">>, <<"fu">>, <<"fd">>, <<"nu">>,
                <<"nd">>, NoneVal } |->
        CASE attr = <<"s">>  -> "#"
          [] attr = <<"f">>  -> "-"
          [] attr = <<"ss">> -> "##"
          [] attr = <<"x">>  -> "##"
          [] attr = <<"ff">> -> "--"
          [] attr = <<"xs">> -> "###"
          [] attr = <<"ts">> -> "###"
          [] attr = <<"tf">> -> "---"
          [] attr = <<"n">>  -> "n"
          [] attr = <<"nf">> -> "-"
          [] attr = <<"ns">> -> "#"
          [] attr = NoneVal  -> "None"
          [] OTHER           -> "???"]

ACCID_GES_ATTR_DICT ==
    [attr \in { <<"s">>, <<"f">>, <<"ss">>, <<"ff">>, <<"n">>, <<"su">>, <<"sd">>, <<"fu">>,
                <<"fd">>, NoneVal } |->
        CASE attr = <<"s">>  -> "#"
          [] attr = <<"f">>  -> "-"
          [] attr = <<"ss">> -> "##"
          [] attr = <<"ff">> -> "--"
          [] attr = <<"n">>  -> "n"
          [] attr = NoneVal  -> "None"
          [] OTHER           -> "???"]

\* the codes of _ARTIC_ATTR_DICT whose value is None
ArticNotImplemented ==
    { <<"tap">>, <<"lhpizz">>, <<"dot">>, <<"stroke">>, <<"rip">>, <<"bend">>, <<"flip">>,
      <<"smear">>, <<"fingernail">>, <<"damp">>, <<"dampall">> }

\* the value is the class, "None" for None
ARTIC_ATTR_DICT ==
    [attr \in { <<"acc">>, <<"stacc">>, <<"ten">>, <<"stacciss">>, <<"marc">>, <<"spicc">>,
                <<"doit">>, <<"plop">>, <<"fall">>, <<"dnbow">>, <<"upbow">>, <<"harm">>,
                <<"snap">>, <<"stop">>, <<"open">>, <<"dbltongue">>, <<"toe">>,
                <<"trpltongue">>, <<"heel">> } \cup ArticNotImplemented |->
        CASE attr = <<"acc">>        -> "Accent"
          [] attr = <<"stacc">>      -> "Staccato"
          [] attr = <<"ten">>        -> "Tenuto"
          [] attr = <<"stacciss">>   -> "Staccatissimo"
          [] attr = <<"marc">>       -> "StrongAccent"
          [] attr = <<"spicc">>      -> "Spiccato"
          [] attr = <<"doit">>       -> "Doit"
          [] attr = <<"plop">>       -> "Plop"
          [] attr = <<"fall">>       -> "Falloff"
          [] attr = <<"dnbow">>      -> "DownBow"
          [] attr = <<"upbow">>      -> "UpBow"
          [] attr = <<"harm">>       -> "Harmonic"
          [] attr = <<"snap">>       -> "SnapPizzicato"
          [] attr = <<"stop">>       -> "Stopped"
          [] attr = <<"open">>       -> "OpenString"
          [] attr = <<"dbltongue">>  -> "DoubleTongue"
          [] attr = <<"toe">>        -> "OrganToe"
          [] attr = <<"trpltongue">> -> "TripleTongue"
          [] attr = <<"heel">>       -> "OrganHeel"
          [] OTHER                   -> "None"]

\* _attrTranslator with its try/except
translated(attr, name, mapping) ==
    IF attrTranslatorRaises(attr, mapping)
      THEN Raises("MeiValueError", UNEXPECTED_ATTR_VALUE(name, attr))
      ELSE Returns(attrTranslator(attr, name, mapping))

accidentalFromAttr(attr) == translated(attr, "accid", ACCID_ATTR_DICT)

accidGesFromAttr(attr) == translated(attr, "accid.ges", ACCID_GES_ATTR_DICT)

qlDurationFromAttrCall(attr) == translated(attr, "dur", DUR_ATTR_DICT)

\* a tuple of instances, each written as its class; calling None is a
\* TypeError
articulationFromAttr(attr) ==
    IF attr = <<"marc-stacc">> THEN Returns(<<"StrongAccent", "Staccato">>)
    ELSE IF attr = <<"ten-stacc">> THEN Returns(<<"Tenuto", "Staccato">>)
    ELSE LET cls == translated(attr, "artic", ARTIC_ATTR_DICT)
         IN  IF cls.raised # "none" THEN cls
             ELSE IF cls.value = "None"
               THEN Raises("TypeError", <<"'NoneType' object is not callable">>)
             ELSE Returns(<<cls.value>>)

\* _barlineFromAttr with the exception _attrTranslator may raise in it
barlineFromAttrCall(attr) ==
    IF attr[1] # "rpt" /\ attrTranslatorRaises(attr, BAR_ATTR_DICT)
      THEN Raises("MeiValueError", UNEXPECTED_ATTR_VALUE("right", attr))
      ELSE Returns(barlineFromAttr(attr))

(* A Python float is a double: a sum of powers of two whose exponents span   *)
(* at most Mantissa places.  A positive float is modelled as the set of the *)
(* exponents of its binary digits, 1.5 = 2^0 + 2^-1 being {0, -1}.          *)
Mantissa == 53

Max(S) == CHOOSE k \in S : \A j \in S : j <= k

\* S + T, exactly: the digits only one of them has, and a carry for every
\* digit both have
RECURSIVE addExact(_, _)
addExact(S, T) ==
    IF S \cap T = {} THEN S \cup T
    ELSE addExact((S \cup T) \ (S \cap T), {k + 1 : k \in S \cap T})

\* the double nearest to S, ties to the even significand
roundToFloat(S) ==
    IF S = {} THEN S
    ELSE LET low == Max(S) - (Mantissa - 1)
             dropped == {k \in S : k < low}
             kept == S \ dropped
         IN  IF dropped = {} THEN S
             ELSE IF (low - 1) \notin dropped THEN kept
             ELSE IF dropped # {low - 1} THEN addExact(kept, {low})
             ELSE IF low \in kept THEN addExact(kept, {low})
             ELSE kept

\* the float S + T
floatAdd(S, T) ==
    IF S = {} THEN T
    ELSE IF T = {} THEN S
    ELSE roundToFloat(addExact(S, T))

\* float(base) / 2 ** i
floatDivPow2(S, i) == {k - i : k \in S}

\* sum([float(base) / x for x in [2 ** i for i in xrange(1, dots + 1)]]),
\* added up from 0 in the order of the list
RECURSIVE sumOfDots(_, _)
sumOfDots(base, dots) ==
    IF dots = 0 THEN {}
    ELSE floatAdd(sumOfDots(base, dots - 1), floatDivPow2(base, dots))

\* duration.Duration(quarterLength, dots=dots): a Duration of that length
Duration(quarterLength, dots) ==
    [cls |-> "Duration", quarterLength |-> quarterLength, dots |-> dots]

makeDurationCall(base, dots) ==
    Returns(Duration(floatAdd(base, sumOfDots(base, dots)), dots))

MaxDots == 54

\* the floats the base may be: 'long' (16.0) down to '2048' (2 ** -9), and 3.0
Bases == { {e} : e \in -9..4 } \cup { {1, 0} }

\* the children of the <layer> handed to layerFromElement
LayerChildren ==
    { <<>>,
      << [tag |-> "note", dur |-> <<"4">>, dots |-> 0] >>,
      << [tag |-> "rest", dur |-> <<"2">>, dots |-> 0],
         [tag |-> "note", dur |-> <<"2">>, dots |-> 0] >>,
      << [tag |-> "mRest", dur |-> NoneVal, dots |-> 0] >> }

\* dotFromElement: every <dot> child counts 1
dotFromElement == 1

\* the duration of the Note of noteFromElement for a <note> with @dur, @dots
\* and dotChildren <dot> children: [quarterLength, dots], the length in 2048th
\* notes
noteDurationFromElement(elem) ==
    LET fromAttrs == [quarterLength |-> makeDuration(qlDurationFromAttr(elem.dur), elem.dots),
                      dots |-> elem.dots]
        dotElements == elem.dotChildren * dotFromElement
    IN  IF dotElements > 0
          THEN [quarterLength |-> makeDuration(qlDurationFromAttr(elem.dur), dotElements),
                dots |-> dotElements]
          ELSE fromAttrs

\* the dots a <note> may have in @dots, and as <dot> children
MaxDotsAttr == 2

\* values that are in no table
Unlisted == { <<"9">>, <<"zz">> }

InitCall ==
    /\ \/ \E attr \in DOMAIN ACCID_ATTR_DICT \cup DOMAIN ACCID_GES_ATTR_DICT \cup Unlisted :
             \E fn \in {"_accidentalFromAttr", "_accidGesFromAttr"} :
                 call = [fn |-> fn, attr |-> attr]
       \/ \E attr \in DOMAIN DUR_ATTR_DICT \cup Unlisted :
             call = [fn |-> "_qlDurationFromAttr", attr |-> attr]
       \/ \E attr \in DOMAIN ARTIC_ATTR_DICT \cup Unlisted
                         \cup { <<"marc-stacc">>, <<"ten-stacc">>, NoneVal } :
             call = [fn |-> "_articulationFromAttr", attr |-> attr]
       \/ \E attr \in DOMAIN BAR_ATTR_DICT \cup Unlisted
                         \cup { <<"rpt", "start">>, <<"rpt", "end">>, <<"rpt", "both">>,
                                <<"rpt", "zz">>, <<"dbldashed">> } :
             call = [fn |-> "_barlineFromAttr", attr |-> attr]
       \/ \E n \in {NoneVal, <<"2">>}, children \in LayerChildren,
                overrideN \in {NoneVal, <<>>, <<"1">>, <<"3">>} :
             call = [fn |-> "layerFromElement", elem |-> Layer(n, children),
                     overrideN |-> overrideN]
       \/ \E dur \in { <<"1">>, <<"2">>, <<"4">>, <<"8">> },
                dots \in 0..MaxDotsAttr, dotChildren \in 0..MaxDotsAttr :
             call = [fn |-> "noteFromElement",
                     elem |-> [tag |-> "note", dur |-> dur, dots |-> dots,
                               dotChildren |-> dotChildren]]
       \/ \E base \in Bases, dots \in 0..MaxDots :
             call = [fn |-> "makeDuration", base |-> base, dots |-> dots]
    /\ result = Pending
    /\ NoRun /\ NoBeamCall /\ NoGuessCall /\ NoMeasureCall /\ NoAssembleCall

\* the call of function fn that has not returned yet
calling(fn) == call.fn = fn /\ result = Pending

AccidentalFromAttr ==
    /\ calling("_accidentalFromAttr")
    /\ result' = accidentalFromAttr(call.attr)
    /\ UNCHANGED <<call, runVars, beamVars, tupletVars, measureVars, assembleVars>>

AccidGesFromAttr ==
    /\ calling("_accidGesFromAttr")
    /\ result' = accidGesFromAttr(call.attr)
    /\ UNCHANGED <<call, runVars, beamVars, tupletVars, measureVars, assembleVars>>

QlDurationFromAttr ==
    /\ calling("_qlDurationFromAttr")
    /\ result' = qlDurationFromAttrCall(call.attr)
    /\ UNCHANGED <<call, runVars, beamVars, tupletVars, measureVars, assembleVars>>

ArticulationFromAttr ==
    /\ calling("_articulationFromAttr")
    /\ result' = articulationFromAttr(call.attr)
    /\ UNCHANGED <<call, runVars, beamVars, tupletVars, measureVars, assembleVars>>

BarlineFromAttr ==
    /\ calling("_barlineFromAttr")
    /\ result' = barlineFromAttrCall(call.attr)
    /\ UNCHANGED <<call, runVars, beamVars, tupletVars, measureVars, assembleVars>>

LayerFromElement ==
    /\ calling("layerFromElement")
    /\ result' = layerFromElement(call.elem, call.overrideN)
    /\ UNCHANGED <<call, runVars, beamVars, tupletVars, measureVars, assembleVars>>

NoteFromElement ==
    /\ calling("noteFromElement")
    /\ result' = Returns(noteDurationFromElement(call.elem))
    /\ UNCHANGED <<call, runVars, beamVars, tupletVars, measureVars, assembleVars>>

MakeDuration ==
    /\ calling("makeDuration")
    /\ result' = makeDurationCall(call.base, call.dots)
    /\ UNCHANGED <<call, runVars, beamVars, tupletVars, measureVars, assembleVars>>

NextCall ==
    \/ AccidentalFromAttr
    \/ AccidGesFromAttr
    \/ QlDurationFromAttr
    \/ ArticulationFromAttr
    \/ BarlineFromAttr
    \/ MakeDuration
    \/ LayerFromElement
    \/ NoteFromElement

SpecCall == InitCall /\ [][NextCall]_vars

(***************************************************************************)
(* Properties of run and of the preprocessing passes                       *)
(***************************************************************************)
PreprocessingCalls == {"_ppSlurs", "_ppTies", "_ppBeams", "_ppTuplets", "_ppConclude"}

assemblyBegun == "allPartsPresent" \in done \/ converted # <<>> \/ nextElem > 1

\* value is the tail of whole
IsSuffix(value, whole) ==
    /\ Len(value) <= Len(whole)
    /\ SubSeq(whole, Len(whole) - Len(value) + 1, Len(whole)) = value

\* every annotation of element i is part of the element's own attributes
merged(i) ==
    Elements[i].xmlid \in DOMAIN m21Attr =>
        \A a \in DOMAIN m21Attr[Elements[i].xmlid] :
            /\ a \in DOMAIN elemAttr[i]
            /\ IsSuffix(m21Attr[Elements[i].xmlid][a], elemAttr[i][a])

\* C1: the four preprocessing sub-passes and the concluding attribute merge
\* have all returned before the first staff definition, measure or event is
\* converted, and no event is converted while one of its annotations is
\* only in the annotation map.
C1_PreprocessThenAssemble ==
    assemblyBegun =>
        /\ PreprocessingCalls \subseteq done
        /\ \A k \in 1..Len(converted) : merged(converted[k].elem)

C1_Witness ==
    /\ theScore.returned
    /\ \E k \in 1..Len(converted) :
          /\ converted[k].id \in DOMAIN m21Attr
          /\ converted[k].tie = "start"
          /\ converted[k].beams = <<"start">>

labels(bundle) == [k \in 1..Len(bundle) |-> bundle[k].idLocal]

\* the labels of the 'i' tokens of @slur, in token order
RECURSIVE opened(_)
opened(tokens) ==
    IF tokens = <<>> THEN <<>>
    ELSE (IF Head(tokens)[2] = "i" THEN << <<Head(tokens)[1]>> >> ELSE <<>>)
         \o opened(Tail(tokens))

\* the labels opened by the @slur attributes of the notes among elements 1..n
RECURSIVE openedUpTo(_)
openedUpTo(n) ==
    IF n = 0 THEN <<>>
    ELSE openedUpTo(n - 1)
         \o (IF n \in NoteIdx THEN opened(DictGet(docAttr[n], "slur", <<>>)) ELSE <<>>)

\* C2 as stated: nothing is written once assembly has begun, so the spanners
\* of the finished Score are exactly those registered by preprocessing.
C2_RegistryFrozen ==
    theScore.returned =>
        /\ m21Attr = ppEnd.m21Attr
        /\ labels(theScore.spanners) = labels(ppEnd.slurBundle)

\* C2 amended: once assembly has begun the annotation map is never written
\* and the spanner registry is only appended to: it holds the spanners that
\* preprocessing registered followed by one new spanner for every 'i' token
\* of the @slur attribute of each note converted so far, and the finished
\* Score carries exactly that list.
C2_RegistryOnlyGrowsByInlineSlurs ==
    ppEnd.taken =>
        /\ m21Attr = ppEnd.m21Attr
        /\ labels(slurBundle) = labels(ppEnd.slurBundle) \o openedUpTo(nextElem - 1)
        /\ theScore.returned => theScore.spanners = slurBundle

C2_Witness ==
    /\ theScore.returned
    /\ ppEnd.slurBundle # <<>>
    /\ Len(theScore.spanners) = Len(ppEnd.slurBundle) + 2

slurElements == iterfind(spans, "slur")

\* C3 as stated: after _ppSlurs every <slur> with both references has its
\* start annotated m21SlurStart = L and its end m21SlurEnd = L for one label
\* L that exactly one registered spanner carries, and a <slur> missing a
\* reference adds no annotation and no spanner.
C3_SlurPass ==
    (done = {"_ppSlurs"}) =>
        /\ \A k \in 1..Len(slurElements) :
              hasBoth(slurElements[k]) =>
                \E L \in {slurBundle[j].idLocal : j \in 1..Len(slurBundle)} :
                    /\ DictGet(DictGet(m21Attr, removeOctothorpe(slurElements[k].startid),
                                       EmptyDict), "m21SlurStart", <<>>) = L
                    /\ DictGet(DictGet(m21Attr, removeOctothorpe(slurElements[k].endid),
                                       EmptyDict), "m21SlurEnd", <<>>) = L
                    /\ Cardinality(getByIdLocal(slurBundle, L)) = 1
        /\ Len(slurBundle) =
              Cardinality({k \in 1..Len(slurElements) : hasBoth(slurElements[k])})
        /\ DOMAIN m21Attr \subseteq
              UNION { {removeOctothorpe(slurElements[k].startid),
                       removeOctothorpe(slurElements[k].endid)} :
                      k \in {j \in 1..Len(slurElements) : hasBoth(slurElements[j])} }

tieElements == iterfind(spans, "tie")

isTie(t, from, to) ==
    hasBoth(t) /\ removeOctothorpe(t.startid) = from /\ removeOctothorpe(t.endid) = to

\* C4 as stated: annotations accumulate, so with ties a->b and b->c the
\* annotation of b holds the close and the open marker after the tie pass
\* and b is converted with a continuation tie.
C4_TieAnnotationsAccumulate ==
    ( /\ "_ppTies" \in done
      /\ \E k \in 1..Len(tieElements) : isTie(tieElements[k], <<"a">>, <<"b">>)
      /\ \E k \in 1..Len(tieElements) : isTie(tieElements[k], <<"b">>, <<"c">>) ) =>
        /\ contains(m21Attr[<<"b">>]["tie"], "t")
        /\ contains(m21Attr[<<"b">>]["tie"], "i")
        /\ \A k \in 1..Len(converted) :
              converted[k].id = <<"b">> => converted[k].tie = "continue"

\* C5 as stated: after _ppConclude every element, at any depth, whose xml:id
\* is a key of the annotation map has each annotation appended to its own
\* value of that attribute, and every other attribute is unchanged.
C5_ConcludeMergesEveryElement ==
    ("_ppConclude" \in done) =>
        \A i \in ElemIdx :
            LET extra == DictGet(m21Attr, Elements[i].xmlid, EmptyDict)
            IN  /\ DOMAIN elemAttr[i] = DOMAIN docAttr[i] \cup DOMAIN extra
                /\ \A a \in DOMAIN elemAttr[i] :
                      elemAttr[i][a] =
                        IF a \in DOMAIN extra
                          THEN DictGet(docAttr[i], a, <<>>) \o extra[a]
                          ELSE docAttr[i][a]

tupletElements == iterfind(spans, "tupletSpan")

\* the annotation map before _ppTuplets handles its k-th <tupletSpan>
tupletsBefore(k) == ppTupletsFrom(m21Attr, SubSeq(tupletElements, 1, k - 1))

entry(attr, xmlid) == DictGet(attr, xmlid, EmptyDict)

\* xmlid is annotated with the ratio of the <tupletSpan> t
hasRatio(attr, xmlid, t) ==
    /\ xmlid \in DOMAIN attr
    /\ DictGet(attr[xmlid], "m21TupletNum", <<>>) = t.num
    /\ DictGet(attr[xmlid], "m21TupletNumbase", <<>>) = t.numbase

hasSearch(attr, xmlid, marker) ==
    DictGet(entry(attr, xmlid), "m21TupletSearch", <<>>) = marker

memberIds(t) ==
    {removeOctothorpe(t.plist[j]) : j \in 1..Len(t.plist)} \ {<<>>}

\* branch (a): every non-empty member gets the ratio and no search marker
tupletBranchPlist(before, after, t) ==
    \A x \in memberIds(t) :
        /\ hasRatio(after, x, t)
        /\ DictGet(entry(after, x), "m21TupletSearch", <<>>)
             = DictGet(entry(before, x), "m21TupletSearch", <<>>)

\* no identifier other than those of ids is annotated
onlyAnnotates(before, after, ids) ==
    /\ DOMAIN after \subseteq DOMAIN before \cup ids
    /\ \A x \in DOMAIN before \ ids : after[x] = before[x]

eligibleBefore == {i \in 1..Len(thingsBefore) : beamEligible(thingsBefore[i])}

allBeams(thing, type) == Len(thing.beams) > 0 /\ \A k \in 1..Len(thing.beams) : thing.beams[k] = type

\* C8: when the sequence holds at least two beam-eligible events the call
\* returns, the first eligible event has all its beams 'start', the last
\* eligible event 'stop' and every eligible event between them 'continue',
\* whatever non-eligible events stand before, between or after them.
C8_BeamTogetherRoles ==
    (beamCall # "ready" /\ Cardinality(eligibleBefore) >= 2) =>
        /\ beamCall = "returned"
        /\ Len(someThings) = Len(thingsBefore)
        /\ \A i \in eligibleBefore :
              LET first == \A j \in eligibleBefore : i <= j
                  last == \A j \in eligibleBefore : j <= i
              IN  /\ someThings[i].beams = fill(thingsBefore[i].type,
                                                IF first THEN "start"
                                                ELSE IF last THEN "stop" ELSE "continue")
                  /\ allBeams(someThings[i],
                              IF first THEN "start" ELSE IF last THEN "stop" ELSE "continue")

\* three eligible events with a half note between the first two
C8_Witness ==
    /\ beamCall = "returned"
    /\ Len(someThings) = 4
    /\ thingsBefore[2].type = 2
    /\ eligibleBefore = {1, 3, 4}
    /\ someThings[1].beams = <<"start">>
    /\ someThings[2].beams = <<>>
    /\ allBeams(someThings[3], "continue")
    /\ allBeams(someThings[4], "stop")

\* C9 as stated: an event that already carries a beam assignment, or whose
\* note value is a quarter or longer, has after the call the beam assignment
\* it had before, also when no event of the sequence is beam-eligible.
C9_BeamTogetherFrame ==
    beamCall = "returned" =>
        \A i \in 1..Len(thingsBefore) :
            (Len(thingsBefore[i].beams) > 0 \/ thingsBefore[i].type <= 4) =>
                someThings[i].beams = thingsBefore[i].beams

(***************************************************************************)
(* Properties of _guessTuplets                                             *)
(***************************************************************************)
searchAt(marker) == {i \in 1..Len(layerBefore) : layerBefore[i].m21TupletSearch = marker}

hasOneRatio(obj, num, numbase) ==
    /\ Len(obj.tuplets) = 1
    /\ obj.tuplets[1].num = num
    /\ obj.tuplets[1].numbase = numbase

\* C7 as stated: when the event at i carries 'search: start' with ratio
\* num:numbase and the event at j > i carries 'search: end' (and no other
\* event carries a marker), then after _guessTuplets every Note, Rest or
\* Chord at i..j has exactly one tuplet num:numbase, the one at i has tuplet
\* type 'start', the one at j 'stop', those strictly between have neither,
\* and the events before i and after j have no tuplet.
C7_GuessTupletsRoles ==
    guessCall = "returned" =>
        \A i \in searchAt(<<"start">>), j \in searchAt(<<"end">>) :
            (i < j /\ searchAt(<<"start">>) = {i} /\ searchAt(<<"end">>) = {j}) =>
                LET num == int(layerBefore[i].m21TupletNum)
                    numbase == int(layerBefore[i].m21TupletNumbase)
                IN  /\ \A k \in i..j : hasDuration(theLayer[k]) =>
                                          hasOneRatio(theLayer[k], num, numbase)
                    /\ theLayer[i].tuplets[1].type = "start"
                    /\ theLayer[j].tuplets[1].type = "stop"
                    /\ \A k \in (i + 1)..(j - 1) : hasDuration(theLayer[k]) =>
                                                      theLayer[k].tuplets[1].type = "none"
                    /\ \A k \in 1..Len(theLayer) : (k < i \/ k > j) => theLayer[k].tuplets = <<>>

(***************************************************************************)
(* Properties of measureFromElement                                        *)
(***************************************************************************)
\* a staff all of whose events are <mRest>/<mSpace> without @dur
isPlaceholder(staff) ==
    \A v \in 1..Len(staff.layers) : \A k \in 1..Len(staff.layers[v].children) :
        /\ staff.layers[v].children[k].tag \in {"mRest", "mSpace"}
        /\ staff.layers[v].children[k].dur = NoneVal

explicitStaffs == {k \in 1..Len(measureElem.staffs) : ~isPlaceholder(measureElem.staffs[k])}

\* the duration the explicit events of staff k add up to
explicitDuration(k) == highestTime(staffFromElement(measureElem.staffs[k]))

longestExplicit ==
    CHOOSE d \in {explicitDuration(k) : k \in explicitStaffs} :
        \A k \in explicitStaffs : explicitDuration(k) <= d

\* C10 as stated: if at least one staff of the measure supplies an explicit
\* duration every placeholder rest ends with the longest explicit staff
\* duration, whatever the active meter is; only when every staff is a
\* placeholder does it end with the active meter's bar length.
C10_MRestTarget ==
    measureCall = "returned" =>
        \A k \in 1..Len(measureElem.staffs) :
            isPlaceholder(measureElem.staffs[k]) =>
                LET rest == staves[measureElem.staffs[k].n].voices[1].objs[1]
                IN  IF explicitStaffs # {}
                      THEN rest.quarterLength = longestExplicit
                      ELSE activeMeter # NoMeter =>
                              rest.quarterLength = activeMeter.totalLength

\* the expected staff identifiers without a <staff> element in the measure
missingNs == expectedNs \ {measureElem.staffs[k].n : k \in 1..Len(measureElem.staffs)}

\* the length the staves that have a <staff> element end with
barLength ==
    CHOOSE d \in {staves[measureElem.staffs[k].n].duration : k \in 1..Len(measureElem.staffs)} :
        \A k \in 1..Len(measureElem.staffs) : staves[measureElem.staffs[k].n].duration <= d

\* C11 as stated: every expected staff identifier without a <staff> element
\* gets a Measure holding one voice with one rest whose length is the bar's
\* length, the length the other staves of the measure have after the
\* full-measure-rest correction, also when that length comes from the meter.
C11_MissingStaffRest ==
    measureCall = "returned" =>
        \A n \in missingNs :
            /\ n \in DOMAIN staves
            /\ staves[n].cls = "Measure"
            /\ Len(staves[n].voices) = 1
            /\ Len(staves[n].voices[1].objs) = 1
            /\ staves[n].voices[1].objs[1].cls = "Rest"
            /\ staves[n].voices[1].objs[1].quarterLength = barLength

(***************************************************************************)
(* Properties of the assembly of the Score                                 *)
(***************************************************************************)
\* the @n of the <staffDef> elements of the score, document order
staffDefNs == [k \in 1..Len(findallStaffDef(document)) |-> findallStaffDef(document)[k].n]

firstAppearance(n) == CHOOSE k \in 1..Len(staffDefNs) :
                          staffDefNs[k] = n /\ \A j \in 1..(k - 1) : staffDefNs[j] # n

\* the staff a Part of the Score is for: the partId of its Instrument
partIds == [k \in 1..Len(assembled.parts) |-> assembled.parts[k][1].partId]

\* C12: the Parts of the returned Score are, in this order, the distinct @n
\* values of the <staffDef> elements in order of first appearance in the
\* document, each once.
C12_PartOrder ==
    assembled.returned =>
        /\ Range(partIds) = Range(staffDefNs)
        /\ \A i, j \in 1..Len(partIds) :
              i < j => firstAppearance(partIds[i]) < firstAppearance(partIds[j])

\* staff 2 is defined before staff 1 and defined again in a section
C12_Witness ==
    /\ assembled.returned
    /\ staffDefNs = << <<"2">>, <<"1">>, <<"2">> >>
    /\ partIds = << <<"2">>, <<"1">> >>

\* how many of the first k children of the sections are <measure> elements:
\* the number run gives the Measures of the k-th child when it is a <measure>
measuresUpTo(k) == Len(select(SubSeq(sectionObjects(document), 1, k), "measure"))

\* the Part of the Score for staff n holds a Measure numbered num
partHasMeasure(n, num) ==
    \E p \in 1..Len(assembled.parts) :
        /\ assembled.parts[p][1].partId = n
        /\ \E k \in 1..Len(assembled.parts[p]) :
              /\ assembled.parts[p][k].cls = "Measure"
              /\ assembled.parts[p][k].number = num

\* C13: every @n on a <staff> of a processed <measure> has a Part in the
\* returned Score, and that Part holds the Measure built from the <staff>;
\* no staff's content is dropped.
C13_NoStaffDropped ==
    assembled.returned =>
        \A k \in 1..Len(sectionObjects(document)) :
            sectionObjects(document)[k].tag = "measure" =>
                \A s \in 1..Len(sectionObjects(document)[k].staffs) :
                    partHasMeasure(sectionObjects(document)[k].staffs[s].n, measuresUpTo(k))

\* the position of the j-th <measure> among the children of the sections,
\* 0 for j = 0
measurePosition(j) ==
    IF j = 0 THEN 0
    ELSE CHOOSE k \in 1..Len(sectionObjects(document)) :
            sectionObjects(document)[k].tag = "measure" /\ measuresUpTo(k) = j

\* the objects of the score-wide definition blocks run meets after the
\* (j-1)-th and before the j-th <measure>; before the first <measure> run
\* first meets the <scoreDef> that find() returns
definedBefore(j) ==
    LET found == findScoreDef(document)
        between == SubSeq(sectionObjects(document),
                          measurePosition(j - 1) + 1, measurePosition(j) - 1)
    IN  (IF j = 1 /\ found # NoElement THEN scoreDefFromElement(found) ELSE <<>>)
        \o flatten([k \in 1..Len(between) |->
                       IF between[k].tag = "scoreDef" THEN scoreDefFromElement(between[k])
                       ELSE <<>>])

\* C14: the objects of a score-wide definition block are at the start of the
\* next processed Measure of every known staff and of no other Measure, and
\* right after a measure has been processed the queue of every staff is empty.
C14_ScoreDefQueue ==
    \A n \in DOMAIN parsed :
        /\ \A k \in 1..Len(parsed[n]) :
              parsed[n][k].cls = "Measure" =>
                  parsed[n][k].atStart = definedBefore(parsed[n][k].number)
        /\ (position > 0 /\ sectionObjects(document)[position].tag = "measure")
              => inNextMeasure[n] = <<>>

\* a measure, a <scoreDef> with a meter, a measure: the second Measure of
\* every staff starts with the new TimeSignature, the first with the objects of
\* the <scoreDef> before the sections, and nothing is queued
C14_Witness ==
    /\ position = 3
    /\ sectionObjects(document)[2].tag = "scoreDef"
    /\ sectionObjects(document)[3].tag = "measure"
    /\ Len(allPartNs) = 2
    /\ \A n \in DOMAIN parsed :
          /\ Len(parsed[n]) >= 3
          /\ parsed[n][Len(parsed[n])].atStart
                = << [cls |-> "TimeSignature", totalLength |-> 3 * QuarterLength] >>
          /\ parsed[n][Len(parsed[n]) - 1].cls = "Measure"
          /\ parsed[n][Len(parsed[n]) - 1].atStart
                = << [cls |-> "KeySignature", sharps |-> 1] >>
          /\ inNextMeasure[n] = <<>>

\* the j-th <measure> run processes has @right='rptboth'
splitRepeatAt(j) ==
    /\ j >= 1
    /\ sectionObjects(document)[measurePosition(j)].right = <<"rpt", "both">>

\* C15: the Measures of every staff for a <measure> with @right='rptboth'
\* have a closing repeat as right barline, the Measures for the next processed
\* <measure> have an opening repeat as left barline, and no other Measure has
\* a carried left barline.
C15_CarriedBarline ==
    \A n \in DOMAIN parsed :
        \A k \in 1..Len(parsed[n]) :
            parsed[n][k].cls = "Measure" =>
                /\ splitRepeatAt(parsed[n][k].number)
                      => parsed[n][k].rightBarline = Repeat("end")
                /\ parsed[n][k].leftBarline =
                      IF splitRepeatAt(parsed[n][k].number - 1) THEN Repeat("start")
                      ELSE NoBarline

\* three measures, the first with @right='rptboth' and alone in its section:
\* the second Measure of every staff opens a repeat, the third does not
C15_Witness ==
    /\ position = 3
    /\ Len(document.sections[1]) = 1
    /\ splitRepeatAt(1) /\ ~splitRepeatAt(2)
    /\ Len(allPartNs) = 2
    /\ \A n \in DOMAIN parsed :
          LET last == Len(parsed[n])
          IN  /\ last >= 4
              /\ \A k \in (last - 2)..last : parsed[n][k].cls = "Measure"
              /\ parsed[n][last].number = 3
              /\ parsed[n][last].leftBarline = NoBarline
              /\ parsed[n][last - 1].leftBarline = Repeat("start")
              /\ parsed[n][last - 2].rightBarline = Repeat("end")
              /\ parsed[n][last - 2].leftBarline = NoBarline

(***************************************************************************)
(* Properties of the functions called one at a time                        *)
(***************************************************************************)
Translators ==
    {"_accidentalFromAttr", "_accidGesFromAttr", "_qlDurationFromAttr", "_articulationFromAttr",
     "_barlineFromAttr"}

\* the codes the translator's table and documentation list
listedCodes(fn) ==
    CASE fn = "_accidentalFromAttr"   -> DOMAIN ACCID_ATTR_DICT
      [] fn = "_accidGesFromAttr"     -> DOMAIN ACCID_GES_ATTR_DICT
      [] fn = "_qlDurationFromAttr"   -> DOMAIN DUR_ATTR_DICT
      [] fn = "_articulationFromAttr" ->
            DOMAIN ARTIC_ATTR_DICT \cup { <<"marc-stacc">>, <<"ten-stacc">> }
      [] fn = "_barlineFromAttr"      ->
            DOMAIN BAR_ATTR_DICT \cup { <<"rpt", "start">>, <<"rpt", "end">>, <<"rpt", "both">> }

\* the name of the attribute the translator is for
attrName(fn) ==
    CASE fn = "_accidentalFromAttr"   -> "accid"
      [] fn = "_accidGesFromAttr"     -> "accid.ges"
      [] fn = "_qlDurationFromAttr"   -> "dur"
      [] fn = "_articulationFromAttr" -> "artic"
      [] fn = "_barlineFromAttr"      -> "right"

\* the value the table and the documentation give for a listed code
listedValue(fn, attr) ==
    CASE fn = "_accidentalFromAttr"   -> ACCID_ATTR_DICT[attr]
      [] fn = "_accidGesFromAttr"     -> ACCID_GES_ATTR_DICT[attr]
      [] fn = "_qlDurationFromAttr"   -> DUR_ATTR_DICT[attr]
      [] fn = "_articulationFromAttr" ->
            IF attr = <<"marc-stacc">> THEN <<"StrongAccent", "Staccato">>
            ELSE IF attr = <<"ten-stacc">> THEN <<"Tenuto", "Staccato">>
            ELSE <<ARTIC_ATTR_DICT[attr]>>
      [] fn = "_barlineFromAttr"      ->
            IF attr = <<"rpt", "start">> THEN Repeat("start")
            ELSE IF attr = <<"rpt", "end">> THEN Repeat("end")
            ELSE IF attr = <<"rpt", "both">>
              THEN [cls |-> "tuple", items |-> <<Repeat("end"), Repeat("start")>>]
            ELSE Barline(BAR_ATTR_DICT[attr])

\* C16: a translator called with a code its table lists returns the table's
\* value; called with any other code it raises MeiValueError with a message
\* naming the attribute and the value; it has no third outcome.
C16_Translators ==
    (call.fn \in Translators /\ result # Pending) =>
        IF call.attr \in listedCodes(call.fn)
          THEN /\ result.raised = "none"
               /\ result.value = listedValue(call.fn, call.attr)
          ELSE /\ result.raised = "MeiValueError"
               /\ result.value = UNEXPECTED_ATTR_VALUE(attrName(call.fn), call.attr)

\* S < T for two sums of powers of two
less(S, T) == S # T /\ Max((S \ T) \cup (T \ S)) \in T

\* C17: makeDuration(base, dots) has the quarter length
\* base * (2 - 2 ** -dots), that is, adding base / 2 ** dots to it gives
\* 2 * base; so with no dot it is base, every further dot makes it strictly
\* longer, and it is always shorter than 2 * base.
C17_MakeDuration ==
    (call.fn = "makeDuration" /\ result # Pending) =>
        /\ result.raised = "none"
        /\ LET quarterLength == result.value.quarterLength
               twice == floatDivPow2(call.base, -1)
           IN  /\ addExact(quarterLength, floatDivPow2(call.base, call.dots)) = twice
               /\ call.dots = 0 => quarterLength = call.base
               /\ less(quarterLength, twice)
               /\ call.dots > 0 =>
                     less(makeDurationCall(call.base, call.dots - 1).value.quarterLength,
                          quarterLength)

(***************************************************************************)
(* Properties of the converter's fatal errors                              *)
(***************************************************************************)
\* C18: no Score is returned for a document that is not well-formed, whose
\* root is not <mei>, or whose score has no <staffDef>: the first raises
\* MeiValidityError and the second MeiElementError at construction, so run
\* never starts; the third raises MeiValidityError in run before any object of
\* the score is built.
C18_FatalErrors ==
    LET tree == fromstring(call.theDocument, <<>>, <<>>, FALSE)
        notStarted == pc = 1 /\ done = {} /\ raised = "none"
    IN  /\ ~tree.ok =>
              /\ theScore = NoScore /\ notStarted
              /\ result # Pending => result.raised = "MeiValidityError"
        /\ (tree.ok /\ tree.elems[1].tag # "mei") =>
              /\ theScore = NoScore /\ notStarted
              /\ result # Pending => result.raised = "MeiElementError"
        /\ (tree.ok /\ tree.elems[1].tag = "mei" /\ ~hasStaffDef(tree.elems)) =>
              /\ theScore = NoScore /\ converted = <<>>
              /\ "allPartsPresent" \notin done
              /\ raised # "none" => raised = "MeiValidityError"

\* a <tupletSpan> of the document lacks @num or @numbase
ratioMissing ==
    \E k \in 1..Len(spans) :
        /\ spans[k].kind = "tupletSpan"
        /\ spans[k].num = NoneVal \/ spans[k].numbase = NoneVal

\* C19: a document with a <tupletSpan> that lacks @num or @numbase ends in a
\* fatal error: run returns no Score for it.  (The <tuplet> element's own
\* check is the raise of tupletFromElement before it converts a child.)
C19_TupletRatioRequired == ratioMissing => ~theScore.returned

\* C20: the Voice layerFromElement returns has the override as id when one
\* is supplied and the layer's @n otherwise; with neither it raises
\* MeiAttributeError and returns no Voice, so that every Voice returned has an
\* id.  (An empty override counts as none: "if overrideN:".)
C20_VoiceId ==
    (call.fn = "layerFromElement" /\ result # Pending) =>
        /\ IF call.overrideN # NoneVal /\ call.overrideN # <<>>
             THEN result.raised = "none" /\ result.value.id = call.overrideN
           ELSE IF call.elem.n # NoneVal
             THEN result.raised = "none" /\ result.value.id = call.elem.n
           ELSE result.raised = "MeiAttributeError" /\ result.value = MISSING_VOICE_ID
        /\ result.raised = "none" =>
              /\ result.value.id # NoneVal
              /\ Len(result.value.objs) = Len(call.elem.children)

\* a <layer> with a note, without @n, converted without an override
C20_Witness ==
    /\ call.fn = "layerFromElement"
    /\ call.overrideN = NoneVal /\ call.elem.n = NoneVal
    /\ Len(call.elem.children) = 1
    /\ result.raised = "MeiAttributeError"

(***************************************************************************)
(* Properties of the spanner registry                                      *)
(***************************************************************************)
\* C21: at every point of a conversion no two spanners of the registry carry
\* the same label, for spanners made by the slur pass and for spanners made
\* from inline @slur tokens alike.
C21_UniqueLabels ==
    \A j, k \in 1..Len(slurBundle) :
        slurBundle[j].idLocal = slurBundle[k].idLocal => j = k

(***************************************************************************)
(* Properties of the Voices                                                *)
(***************************************************************************)
\* the <staff n=...> of the j-th <measure> run processes, as a set of
\* positions among the measure's <staff> elements
staffOf(j, n) ==
    LET elem == sectionObjects(document)[measurePosition(j)]
    IN  {s \in 1..Len(elem.staffs) : elem.staffs[s].n = n}

\* the v-th <layer> of the s-th <staff> of the j-th <measure>
layerOf(j, s, v) == sectionObjects(document)[measurePosition(j)].staffs[s].layers[v]

\* C22: for a given staff, two <layer> elements with the same @n in different
\* measures yield Voices with the same id, however many layers precede each
\* of them in its <staff>.
C22_VoiceIdStable ==
    \A n \in DOMAIN parsed :
        \A k1, k2 \in 1..Len(parsed[n]) :
            (parsed[n][k1].cls = "Measure" /\ parsed[n][k2].cls = "Measure") =>
                LET j1 == parsed[n][k1].number
                    j2 == parsed[n][k2].number
                IN  \A s1 \in staffOf(j1, n), s2 \in staffOf(j2, n) :
                        \A v1 \in 1..Len(parsed[n][k1].voices),
                           v2 \in 1..Len(parsed[n][k2].voices) :
                            layerOf(j1, s1, v1).n = layerOf(j2, s2, v2).n
                                => parsed[n][k1].voices[v1].id = parsed[n][k2].voices[v2].id

(***************************************************************************)
(* Properties of noteFromElement                                           *)
(***************************************************************************)
\* C23: a <note> with @dots = d and k >= 1 <dot> children becomes a Note
\* whose duration is the base duration with d + k dots.
C23_DotChildrenAdd ==
    (call.fn = "noteFromElement" /\ result # Pending /\ call.elem.dotChildren >= 1) =>
        LET total == call.elem.dots + call.elem.dotChildren
        IN  /\ result.value.dots = total
            /\ result.value.quarterLength
                  = makeDuration(qlDurationFromAttr(call.elem.dur), total)

(***************************************************************************)
(* Properties of the barlines and placeholders of measureFromElement       *)
(***************************************************************************)
\* the barline an attribute value stands for at the given end of a measure
\* (for 'rptboth', the closing repeat on the right and the opening on the left)
barlineAt(attr, end) ==
    IF attr = NoneVal THEN NoBarline
    ELSE LET barz == barlineFromAttr(attr)
         IN  IF ~hasLen(barz) THEN barz
             ELSE IF end = "left" THEN barz.items[2] ELSE barz.items[1]

\* C24: in every Measure measureFromElement returns the left barline is the
\* one of the measure's @left and the right barline the one of its @right;
\* a barline whose attribute is absent stays unset.
C24_OwnBarlines ==
    measureCall = "returned" =>
        \A n \in DOMAIN staves :
            staves[n].cls = "Measure" =>
                /\ staves[n].leftBarline = barlineAt(measureElem.left, "left")
                /\ staves[n].rightBarline = barlineAt(measureElem.right, "right")

\* the placeholders of the measure: <<s, v, k>> for the k-th child of the v-th
\* <layer> of the s-th <staff>, an <mRest> or <mSpace> without @dur
placeholders ==
    { t \in UNION { UNION { { <<s, v, k>> :
                                k \in 1..Len(measureElem.staffs[s].layers[v].children) } :
                            v \in 1..Len(measureElem.staffs[s].layers) } :
                    s \in 1..Len(measureElem.staffs) } :
        LET child == measureElem.staffs[t[1]].layers[t[2]].children[t[3]]
        IN  child.tag \in {"mRest", "mSpace"} /\ child.dur = NoneVal }

\* C25: after measureFromElement returns no event of a returned Measure
\* carries the placeholder tag, and the Voice and the Measure of every
\* placeholder have the length the placeholder was given as duration.
C25_PlaceholdersResolved ==
    measureCall = "returned" =>
        /\ \A n \in DOMAIN staves :
              staves[n].cls = "Measure" =>
                  \A v \in 1..Len(staves[n].voices) :
                      \A k \in 1..Len(staves[n].voices[v].objs) :
                          ~staves[n].voices[v].objs[k].m21wasMRest
        /\ \A t \in placeholders :
              LET eachMeasure == staves[measureElem.staffs[t[1]].n]
                  assigned == eachMeasure.voices[t[2]].objs[t[3]].quarterLength
              IN  /\ eachMeasure.voices[t[2]].duration = assigned
                  /\ eachMeasure.duration = assigned

\* a staff whose layer holds an <mRest> without @dur and a quarter note, next
\* to a staff with a whole note: the placeholder, its Voice and its Measure
\* last four quarters
C25_Witness ==
    /\ measureCall = "returned"
    /\ \E t \in placeholders :
          /\ Len(measureElem.staffs[t[1]].layers[t[2]].children) = 2
          /\ staves[measureElem.staffs[t[1]].n].voices[t[2]].objs[1].quarterLength
                = 4 * QuarterLength
          /\ staves[measureElem.staffs[t[1]].n].voices[t[2]].duration = 4 * QuarterLength
          /\ staves[measureElem.staffs[t[1]].n].duration = 4 * QuarterLength
          /\ staves[measureElem.staffs[t[1]].n].voices[t[2]].objs[2].quarterLength
                = QuarterLength

(***************************************************************************)
(* Properties of the search attributes of _guessTuplets                    *)
(***************************************************************************)
\* C26: after _guessTuplets returns no event of the voice carries
\* m21TupletSearch, m21TupletNum or m21TupletNumbase, whatever the arrangement
\* of the markers in the voice.
C26_SearchAttributesRemoved ==
    guessCall = "returned" =>
        \A k \in 1..Len(theLayer) :
            /\ theLayer[k].m21TupletSearch = NoneVal
            /\ theLayer[k].m21TupletNum = NoneVal
            /\ theLayer[k].m21TupletNumbase = NoneVal

\* C27 as stated: between the start and the end marker every event that is
\* not a duration-bearing Note, Rest or Chord, a grace note included, gets no
\* ratio and is unchanged, and the duration-bearing events up to the end
\* marker get the ratio.
C27_SkippedEvents ==
    guessCall = "returned" =>
        \A i \in searchAt(<<"start">>), j \in searchAt(<<"end">>) :
            (i < j /\ searchAt(<<"start">>) = {i} /\ searchAt(<<"end">>) = {j}) =>
                \A k \in i..j :
                    IF layerBefore[k].cls \in {"Note", "Rest", "Chord"} /\ ~layerBefore[k].grace
                      THEN hasOneRatio(theLayer[k], int(layerBefore[i].m21TupletNum),
                                       int(layerBefore[i].m21TupletNumbase))
                      ELSE theLayer[k] = layerBefore[k]

\* C27 amended: between the start and the end marker every event that is not
\* a Note, Rest or Chord gets no ratio and is unchanged, and every Note, Rest
\* and Chord up to the end marker, a grace note included, gets the ratio.
C27_OnlyOtherClassesSkipped ==
    guessCall = "returned" =>
        \A i \in searchAt(<<"start">>), j \in searchAt(<<"end">>) :
            (i < j /\ searchAt(<<"start">>) = {i} /\ searchAt(<<"end">>) = {j}) =>
                \A k \in i..j :
                    IF layerBefore[k].cls \in {"Note", "Rest", "Chord"}
                      THEN hasOneRatio(theLayer[k], int(layerBefore[i].m21TupletNum),
                                       int(layerBefore[i].m21TupletNumbase))
                      ELSE theLayer[k] = layerBefore[k]

\* start marker, clef, grace note, end marker: the clef is as it was and the
\* grace note and the end event have the ratio 3:2
C27_Witness ==
    /\ guessCall = "returned"
    /\ Len(theLayer) = 4
    /\ layerBefore[1].m21TupletSearch = <<"start">>
    /\ layerBefore[2].cls = "Clef" /\ theLayer[2] = layerBefore[2]
    /\ layerBefore[3].grace /\ hasOneRatio(theLayer[3], 3, 2)
    /\ layerBefore[4].m21TupletSearch = <<"end">> /\ hasOneRatio(theLayer[4], 3, 2)

(***************************************************************************)
(* Properties of the beam pass                                             *)
(***************************************************************************)
beamElements == iterfind(spans, "beamSpan")

\* the identifiers the <beamSpan> elements name in @startid, @endid and @plist
namedByBeams ==
    UNION { (IF beamElements[k].startid # NoneVal
               THEN {removeOctothorpe(beamElements[k].startid)} ELSE {})
            \cup (IF beamElements[k].endid # NoneVal
                    THEN {removeOctothorpe(beamElements[k].endid)} ELSE {})
            \cup (IF beamElements[k].plist # NoneVal
                    THEN {removeOctothorpe(beamElements[k].plist[m]) :
                              m \in 1..Len(beamElements[k].plist)}
                    ELSE {}) :
            k \in 1..Len(beamElements) }

\* the annotation map after the pass, given the one before it, is as the
\* claim has it
beamPassEffect(before, after) ==
    /\ \A k \in 1..Len(beamElements) :
          hasBoth(beamElements[k]) =>
              /\ after[removeOctothorpe(beamElements[k].startid)]["m21Beam"] = <<"start">>
              /\ after[removeOctothorpe(beamElements[k].endid)]["m21Beam"] = <<"stop">>
              /\ beamElements[k].plist # NoneVal =>
                    \A m \in 1..Len(beamElements[k].plist) :
                        LET eachXmlid == removeOctothorpe(beamElements[k].plist[m])
                        IN  /\ eachXmlid \in DOMAIN after
                            /\ "m21Beam" \in DOMAIN after[eachXmlid]
                            /\ ("m21Beam" \notin DOMAIN DictGet(before, eachXmlid, EmptyDict)
                                /\ \A j \in 1..Len(beamElements) :
                                      hasBoth(beamElements[j]) =>
                                          /\ eachXmlid # removeOctothorpe(beamElements[j].startid)
                                          /\ eachXmlid # removeOctothorpe(beamElements[j].endid))
                               => after[eachXmlid]["m21Beam"] = <<"continue">>
    /\ \A xmlid \in DOMAIN after \ namedByBeams :
          xmlid \in DOMAIN before /\ after[xmlid] = before[xmlid]

\* C28: after _ppBeams, for each <beamSpan> with @startid and @endid the
\* start identifier is annotated 'start', the end identifier 'stop' and every
\* @plist member without a beam annotation 'continue'; no identifier other
\* than those a <beamSpan> names in @startid, @endid or @plist gets a beam
\* annotation or a new entry of the annotation map.
C28_BeamPass == [][PpBeams => beamPassEffect(m21Attr, m21Attr')]_vars

(***************************************************************************)
(* Properties of the definitions and Measures of the Score                 *)
(***************************************************************************)
\* the objects of each <scoreDef> that precedes the j-th <measure> and follows
\* the one before it, each element taken once; the <scoreDef> at the head of
\* the <score> precedes the first <measure>
definedOnceBefore(j) ==
    LET between == SubSeq(sectionObjects(document),
                          measurePosition(j - 1) + 1, measurePosition(j) - 1)
    IN  (IF j = 1 /\ document.scoreDef # NoElement
           THEN scoreDefFromElement(document.scoreDef) ELSE <<>>)
        \o flatten([k \in 1..Len(between) |->
                       IF between[k].tag = "scoreDef" THEN scoreDefFromElement(between[k])
                       ELSE <<>>])

\* the objects of the <staffDef> elements for staff n, each element taken
\* once: the first one at the head of the <score>, then those in the sections
staffDefinedOnce(n) ==
    LET head == IF document.scoreDef = NoElement THEN <<>> ELSE document.scoreDef.staffDefs
        first == {k \in 1..Len(head) : head[k].n = n}
        inSections == sectionObjects(document)
    IN  (IF first = {} THEN <<>>
         ELSE staffDefFromElement(head[CHOOSE k \in first : \A j \in first : k <= j]))
        \o flatten([k \in 1..Len(inSections) |->
                       IF inSections[k].tag = "staffDef" /\ inSections[k].n = n
                         THEN staffDefFromElement(inSections[k]) ELSE <<>>])

\* the objects of a Part that are not Measures, in order
RECURSIVE notMeasures(_)
notMeasures(part) ==
    IF part = <<>> THEN <<>>
    ELSE (IF Head(part).cls = "Measure" THEN <<>> ELSE <<Head(part)>>)
         \o notMeasures(Tail(part))

\* C29: every <scoreDef> and <staffDef> element contributes its objects to
\* the Score once: the Measures start with the objects of the <scoreDef>
\* elements before them, each element once, and a Part holds the objects of its
\* <staffDef> elements, each element once.
C29_DefinitionsOnce ==
    assembled.returned =>
        \A p \in 1..Len(assembled.parts) :
            /\ \A k \in 1..Len(assembled.parts[p]) :
                  assembled.parts[p][k].cls = "Measure" =>
                      assembled.parts[p][k].atStart
                          = definedOnceBefore(assembled.parts[p][k].number)
            /\ notMeasures(assembled.parts[p]) = staffDefinedOnce(allPartNs[p])

\* the Measures of a Part, in order
RECURSIVE onlyMeasures(_)
onlyMeasures(part) ==
    IF part = <<>> THEN <<>>
    ELSE (IF Head(part).cls = "Measure" THEN <<Head(part)>> ELSE <<>>)
         \o onlyMeasures(Tail(part))

\* the <measure> elements run processes, in document order
measureElements == select(sectionObjects(document), "measure")

\* the voices built from the <staff n=...> of a <measure>, or the one Voice
\* with a rest when the <measure> has no such <staff>
voicesFor(elem, n) ==
    LET hits == {s \in 1..Len(elem.staffs) : elem.staffs[s].n = n}
    IN  IF hits = {} THEN << [id |-> <<"1">>,
                              objs |-> << [cls |-> "Rest", quarterLength |-> QuarterLength,
                                           m21wasMRest |-> FALSE] >>,
                              duration |-> QuarterLength] >>
        ELSE staffFromElement(elem.staffs[CHOOSE s \in hits : \A j \in hits : j <= s])

====
